---- MODULE Spec2Model ----
(***************************************************************************)
(* Rendezvous key-value stores of gloo: the in-process HashStore (a map    *)
(* guarded by a mutex, waiters on a condition variable) and the FileStore  *)
(* (one file per key in a shared directory, waiters poll with stat).       *)
(* Threads call set/get/wait concurrently; time passes between any two     *)
(* steps of a thread.                                                      *)
(***************************************************************************)
EXTENDS Integers, Sequences, FiniteSets, TLC

\* ---------------------------------------------------------------- bounds
Threads == {1, 2, 3}
\* thread 1 only publishes; thread 2 publishes, reads and waits; thread 3
\* takes part in the rendezvous only
Setters == {1, 2}
Getters == {2}
Waiters == {2}
Keys == {"a", "b"}
Values == {<<1>>, <<2, 3>>}
KeyVectors == {<<"a">>, <<"b">>, <<"a", "b">>}
MaxTimeout == 1

\* ------------------------------------------------------------- constants
\* sleep_for(std::chrono::milliseconds(10)) of the polling loop
PollInterval == 10
\* the "no timeout" sentinel: a duration that is no finite (>= 0) timeout
kNoTimeout == 0 - 1
Timeouts == (0 .. MaxTimeout) \cup {kNoTimeout}
Backends == {"hash", "file"}
NoThread == 0
basePath_ == "d"

VARIABLES
  backend,    \* which Store implementation the threads share
  map_,       \* HashStore::map_  : function from the present keys to values
  mutex_,     \* HashStore::mutex_: the owning thread, or NoThread
  cvWaiters,  \* threads blocked inside cv_.wait / cv_.wait_until
  files,      \* the directory: function from existing paths to file contents
  pc,         \* position of each thread
  call,       \* arguments of the call a thread is in
  local,      \* a thread's local integer (file size, write offset, key index)
  elapsed,    \* steady_clock time since a thread entered wait (saturating)
  sleep,      \* remaining time of a thread's sleep_for
  ret,        \* outcome of the call a thread has just finished
  published,  \* history: keys for which some set has returned
  lastRet,    \* history: <<value, solo>> of the last returned set on each key,
              \* emptied when a set on the key is called
  observed,   \* history: keys some successful wait has covered
  hist,       \* history recorded per call (see CallGet, CallWait)
  frame,      \* the Store operation a thread called and that is making the
              \* backend call in pc/call (generic defaults and PrefixStore)
  writes      \* history: <<decorators, key>> of the writing operations called

vars == <<backend, map_, mutex_, cvWaiters, files, pc, call, local, elapsed,
          sleep, ret, published, lastRet, observed, hist, frame, writes>>

storeVars == <<map_, mutex_, cvWaiters, files>>
globalHist == <<published, lastRet, observed>>

\* ---------------------------------------------------------------- helpers
Range(s) == {s[i] : i \in 1 .. Len(s)}
Min(a, b) == IF a < b THEN a ELSE b

NoCall == [op |-> "none", key |-> "", data |-> <<>>, keys |-> <<>>, timeout |-> 0,
           values |-> <<>>, delta |-> 0]
NoRet == [status |-> "none", value |-> <<>>]
\* history of a call: solo (set) no other set on the key overlapped it so far;
\* gexp (get) the pair <<value, solo>> of the last returned set on the key when
\* get was called, emptied when a set on the key is called during the get;
\* gobs (get) the key had been covered by a successful wait when get was
\* called; pubAtCall, pubAtDl (wait) every key had a returned set when wait
\* was called, when its deadline was reached; presAtCall (wait) every key
\* was in the map, or had its file, when wait was called
NoHist == [solo |-> FALSE, gexp |-> {}, gobs |-> FALSE,
           pubAtCall |-> FALSE, pubAtDl |-> FALSE, presAtCall |-> FALSE]

\* the operation a thread called on a Store object: via lists the prefix_ of
\* the PrefixStore decorators it goes through, outermost first (empty: the
\* call is made on the backend itself); i is the loop index of multi_get and
\* multi_set, the statement reached in append and add; result is the vector
\* multi_get builds; pre and among are history: the contents of the store
\* and the threads inside an operation when this one was called
NoFrame == [op |-> "none", via |-> <<>>, key |-> "", data |-> <<>>,
            keys |-> <<>>, values |-> <<>>, delta |-> 0, timeout |-> 0,
            i |-> 0, result |-> <<>>, pre |-> <<>>, among |-> {}]

SetPcs == {"hset_lock", "hset_cs", "fset_open", "fset_write"}
GetPcs == {"hget_lock", "hget_cs", "fget_open", "fget_read"}
HashWaitPcs == {"hwait_lock", "hwait_check", "hwait_until", "hwait_cv"}
FileWaitPcs == {"fwait_stat", "fwait_now", "fwait_sleep"}
WaitPcs == HashWaitPcs \cup FileWaitPcs

\* a set on key k has been called and has not returned
SetInProgress(k) == \E u \in Threads : pc[u] \in SetPcs /\ call[u].key = k

\* FileStore::realPath
realPath(path) == basePath_ \o "/" \o path

\* contents of a file after write(2) of one byte at offset off (0-based);
\* a write past the end leaves a zero-filled hole
WriteAt(content, off, byte) ==
  [i \in 1 .. (IF off + 1 > Len(content) THEN off + 1 ELSE Len(content)) |->
     IF i = off + 1 THEN byte
     ELSE IF i <= Len(content) THEN content[i] ELSE 0]

\* std::vector<char> data(size); file.read(data.data(), size)
ReadInto(content, size) ==
  [i \in 1 .. size |-> IF i <= Len(content) THEN content[i] ELSE 0]

\* variant: the lookup never finds the key
MapHasNot(m, key) == FALSE

\* map_.find(key) != map_.end()
MapHas(m, key) == key \in DOMAIN m

\* variant: the loop stops at the first key it finds
anyFound(ks) == \E i \in 1 .. Len(ks) : MapHas(map_, ks[i])

\* the loop over keys in HashStore::wait
allFound(ks) == \A i \in 1 .. Len(ks) : MapHas(map_, ks[i])

Finish(t, r) ==
  /\ pc' = [pc EXCEPT ![t] = "done"]
  /\ ret' = [ret EXCEPT ![t] = r]

\* ------------------------------------------------------------------- Init
Init ==
  /\ backend \in Backends
  /\ map_ = <<>>
  /\ mutex_ = NoThread
  /\ cvWaiters = {}
  /\ files = <<>>
  /\ pc = [t \in Threads |-> "idle"]
  /\ call = [t \in Threads |-> NoCall]
  /\ local = [t \in Threads |-> 0]
  /\ elapsed = [t \in Threads |-> 0]
  /\ sleep = [t \in Threads |-> 0]
  /\ ret = [t \in Threads |-> NoRet]
  /\ published = {}
  /\ lastRet = [k \in Keys |-> {}]
  /\ observed = {}
  /\ hist = [t \in Threads |-> NoHist]
  /\ frame = [t \in Threads |-> NoFrame]
  /\ writes = {}

\* ------------------------------------------------------------ call/return
\* a thread calls store.set(k, v)
CallSet(t, k, v) ==
  /\ pc[t] = "idle"
  /\ pc' = [pc EXCEPT ![t] = IF backend = "hash" THEN "hset_lock" ELSE "fset_open"]
  /\ call' = [call EXCEPT ![t] = [NoCall EXCEPT !.op = "set", !.key = k, !.data = v]]
  /\ lastRet' = [lastRet EXCEPT ![k] = {}]
  /\ hist' = [u \in Threads |->
                IF u = t THEN [NoHist EXCEPT !.solo = ~SetInProgress(k)]
                ELSE IF pc[u] \in GetPcs /\ call[u].key = k
                THEN [hist[u] EXCEPT !.gexp = {}]
                ELSE IF pc[u] \in SetPcs /\ call[u].key = k
                THEN [hist[u] EXCEPT !.solo = FALSE]
                ELSE hist[u]]
  /\ UNCHANGED <<backend, frame, writes, storeVars, local, elapsed, sleep, ret, published, observed>>

\* a thread calls store.get(k)
CallGet(t, k) ==
  /\ pc[t] = "idle"
  /\ pc' = [pc EXCEPT ![t] = IF backend = "hash" THEN "hget_lock" ELSE "fget_open"]
  /\ call' = [call EXCEPT ![t] = [NoCall EXCEPT !.op = "get", !.key = k]]
  /\ hist' = [hist EXCEPT ![t] = [NoHist EXCEPT !.gexp = lastRet[k],
                                                !.gobs = (k \in observed)]]
  /\ UNCHANGED <<backend, frame, writes, storeVars, local, elapsed, sleep, ret, globalHist>>

\* a thread calls store.wait(ks, T); the first statement of both backends
\* reads steady_clock::now()
CallWait(t, ks, T) ==
  /\ pc[t] = "idle"
  /\ pc' = [pc EXCEPT ![t] = IF backend = "hash" THEN "hwait_lock" ELSE "fwait_stat"]
  /\ call' = [call EXCEPT ![t] = [NoCall EXCEPT !.op = "wait", !.keys = ks, !.timeout = T]]
  /\ local' = [local EXCEPT ![t] = 1]
  /\ elapsed' = [elapsed EXCEPT ![t] = 0]
  /\ hist' = [hist EXCEPT ![t] = [NoHist EXCEPT !.pubAtCall = (Range(ks) \subseteq published),
                                                !.pubAtDl = (T = 0 /\ Range(ks) \subseteq published),
                                                !.presAtCall = \A k \in Range(ks) :
                                                                 IF backend = "hash" THEN k \in DOMAIN map_
                                                                 ELSE realPath(k) \in DOMAIN files]]
  /\ UNCHANGED <<backend, frame, writes, storeVars, sleep, ret, globalHist>>

\* the caller takes the outcome and is free to make its next call
Return(t) ==
  /\ pc[t] = "done"
  /\ frame[t].op = "none"
  /\ pc' = [pc EXCEPT ![t] = "idle"]
  /\ call' = [call EXCEPT ![t] = NoCall]
  /\ local' = [local EXCEPT ![t] = 0]
  /\ elapsed' = [elapsed EXCEPT ![t] = 0]
  /\ ret' = [ret EXCEPT ![t] = NoRet]
  /\ hist' = [hist EXCEPT ![t] = NoHist]
  /\ UNCHANGED <<backend, frame, writes, storeVars, sleep, globalHist>>

\* ------------------------------------------------------------- HashStore
\* variant: the lock is taken without regard to its owner
LockableAlways(m) == TRUE

\* mutex_.lock() goes through only while no thread owns the mutex
Lockable(m) == m = NoThread

\* std::lock_guard / std::unique_lock constructor in set, get and wait
HashStore_lock(t) ==
  /\ pc[t] \in {"hset_lock", "hget_lock", "hwait_lock"}
  /\ Lockable(mutex_)
  /\ mutex_' = t
  /\ pc' = [pc EXCEPT ![t] = CASE pc[t] = "hset_lock" -> "hset_cs"
                                [] pc[t] = "hget_lock" -> "hget_cs"
                                [] OTHER -> "hwait_check"]
  /\ UNCHANGED <<backend, frame, writes, map_, cvWaiters, files, call, local, elapsed, sleep,
                 ret, globalHist, hist>>

\* variant: map_.insert({key, data}), which keeps an existing entry
MapInsertOnly(m, k, v) == m @@ (k :> v)

\* map_[key] = data
MapAssign(m, k, v) == (k :> v) @@ m

\* variant: set does not notify the condition variable
NotifyNone(waiters) == waiters

\* cv_.notify_all()
NotifyAll(waiters) == {}

\* HashStore::set under the lock: assign, notify_all, unlock, return
HashStore_set(t) ==
  /\ pc[t] = "hset_cs"
  /\ map_' = MapAssign(map_, call[t].key, call[t].data)
  /\ cvWaiters' = NotifyAll(cvWaiters)
  /\ mutex_' = NoThread
  /\ published' = published \cup {call[t].key}
  /\ lastRet' = [lastRet EXCEPT ![call[t].key] = {<<call[t].data, hist[t].solo>>}]
  /\ Finish(t, [status |-> "ok", value |-> <<>>])
  /\ UNCHANGED <<backend, frame, writes, files, call, local, elapsed, sleep, observed, hist>>

\* variant: return map_[key], which yields an empty value for a missing key
HashLookupDefault(m, k) ==
  [status |-> "ok", value |-> IF k \in DOMAIN m THEN m[k] ELSE <<>>]

\* the outcome of the lookup in HashStore::get
HashLookup(m, k) ==
  IF k \in DOMAIN m THEN [status |-> "ok", value |-> m[k]]
  ELSE [status |-> "missing", value |-> <<>>]

\* HashStore::get under the lock: find, throw or return a copy, unlock
HashStore_get(t) ==
  /\ pc[t] = "hget_cs"
  /\ mutex_' = NoThread
  /\ Finish(t, HashLookup(map_, call[t].key))
  /\ UNCHANGED <<backend, frame, writes, map_, cvWaiters, files, call, local, elapsed, sleep,
                 globalHist, hist>>

\* variant: the waiter sleeps with the mutex locked
HeldWhileBlocked(t) == t

\* the owner of the mutex while a thread is blocked in cv_.wait_until or
\* cv_.wait: the condition variable unlocks it
ReleasedWhileBlocked(t) == NoThread

\* HashStore::wait, one pass of the loop body with the lock held
HashStore_wait_check(t) ==
  /\ pc[t] = "hwait_check"
  /\ IF allFound(call[t].keys)
     THEN /\ mutex_' = NoThread
          /\ Finish(t, [status |-> "ok", value |-> <<>>])
          /\ observed' = observed \cup Range(call[t].keys)
          /\ UNCHANGED cvWaiters
     ELSE \* wait_until / wait release the lock and block atomically
          /\ mutex_' = ReleasedWhileBlocked(t)
          /\ cvWaiters' = cvWaiters \cup {t}
          /\ pc' = [pc EXCEPT ![t] = IF call[t].timeout # kNoTimeout
                                     THEN "hwait_until" ELSE "hwait_cv"]
          /\ UNCHANGED <<ret, observed>>
  /\ UNCHANGED <<backend, frame, writes, map_, files, call, local, elapsed, sleep,
                 published, lastRet, hist>>

\* the deadline of wait_until is reached while the thread is blocked
WaitUntilExpire(t) ==
  /\ pc[t] = "hwait_until"
  /\ t \in cvWaiters
  /\ elapsed[t] >= call[t].timeout
  /\ cvWaiters' = cvWaiters \ {t}
  /\ UNCHANGED <<backend, frame, writes, map_, mutex_, files, pc, call, local, elapsed, sleep,
                 ret, globalHist, hist>>

\* a condition variable may wake a blocked thread spuriously
SpuriousWakeup(t) ==
  /\ t \in cvWaiters
  /\ cvWaiters' = cvWaiters \ {t}
  /\ UNCHANGED <<backend, frame, writes, map_, mutex_, files, pc, call, local, elapsed, sleep,
                 ret, globalHist, hist>>

\* variant: the status of wait_until is dropped, as with a plain cv_.wait
WaitUntilStatusDropped(e, T) == "no_timeout"

\* cv_status returned by wait_until once the lock is held again
WaitUntilStatus(e, T) == IF e >= T THEN "timeout" ELSE "no_timeout"

\* variant: the exception leaves the mutex locked
HeldOnThrow(t) == t

\* the owner of the mutex once the exception has left wait: the destructor
\* of the unique_lock unlocks it
ReleasedOnThrow(t) == NoThread

\* wait_until re-acquires the lock and returns; on timeout wait throws
HashStore_wait_until_return(t) ==
  /\ pc[t] = "hwait_until"
  /\ t \notin cvWaiters
  /\ mutex_ = NoThread
  /\ IF WaitUntilStatus(elapsed[t], call[t].timeout) = "timeout"
     THEN /\ Finish(t, [status |-> "timeout", value |-> <<>>])
          /\ mutex_' = ReleasedOnThrow(t)
     ELSE /\ mutex_' = t
          /\ pc' = [pc EXCEPT ![t] = "hwait_check"]
          /\ UNCHANGED ret
  /\ UNCHANGED <<backend, frame, writes, map_, cvWaiters, files, call, local, elapsed, sleep,
                 globalHist, hist>>

\* cv_.wait re-acquires the lock and returns
HashStore_wait_cv_return(t) ==
  /\ pc[t] = "hwait_cv"
  /\ t \notin cvWaiters
  /\ mutex_ = NoThread
  /\ mutex_' = t
  /\ pc' = [pc EXCEPT ![t] = "hwait_check"]
  /\ UNCHANGED <<backend, frame, writes, map_, cvWaiters, files, call, local, elapsed, sleep,
                 ret, globalHist, hist>>

\* ------------------------------------------------------------- FileStore
\* variant: a file that exists is removed instead of truncated
OpenUnlinked(fs, path) ==
  IF path \in DOMAIN fs THEN [p \in DOMAIN fs \ {path} |-> fs[p]]
  ELSE (path :> <<>>) @@ fs

\* std::ofstream file(path, std::ios::binary): create or truncate
OpenTruncate(fs, path) == (path :> <<>>) @@ fs

FileStore_set_open(t) ==
  /\ pc[t] = "fset_open"
  /\ files' = OpenTruncate(files, realPath(call[t].key))
  /\ pc' = [pc EXCEPT ![t] = "fset_write"]
  /\ local' = [local EXCEPT ![t] = 0]
  /\ UNCHANGED <<backend, frame, writes, map_, mutex_, cvWaiters, call, elapsed, sleep, ret,
                 globalHist, hist>>

\* file.write(data.data(), data.size()) reaches the file one chunk at a time
\* at the stream's own offset; the destructor closes it and set returns
FileStore_set_write(t) ==
  /\ pc[t] = "fset_write"
  /\ LET path == realPath(call[t].key)
         data == call[t].data
     IN IF local[t] < Len(data)
        THEN /\ files' = [files EXCEPT ![path] = WriteAt(@, local[t], data[local[t] + 1])]
             /\ local' = [local EXCEPT ![t] = @ + 1]
             /\ UNCHANGED <<pc, ret, published, lastRet>>
        ELSE /\ Finish(t, [status |-> "ok", value |-> <<>>])
             /\ published' = published \cup {call[t].key}
             /\ lastRet' = [lastRet EXCEPT ![call[t].key] = {<<data, hist[t].solo>>}]
             /\ UNCHANGED <<files, local>>
  /\ UNCHANGED <<backend, frame, writes, map_, mutex_, cvWaiters, call, elapsed, sleep,
                 observed, hist>>

\* std::ifstream file(path, binary | ate); is_open; tellg
FileStore_get_open(t) ==
  /\ pc[t] = "fget_open"
  /\ LET path == realPath(call[t].key)
     IN IF path \notin DOMAIN files
        THEN /\ Finish(t, [status |-> "missing", value |-> <<>>])
             /\ UNCHANGED local
        ELSE /\ local' = [local EXCEPT ![t] = Len(files[path])]
             /\ pc' = [pc EXCEPT ![t] = "fget_read"]
             /\ UNCHANGED ret
  /\ UNCHANGED <<backend, frame, writes, storeVars, call, elapsed, sleep, globalHist, hist>>

\* seekg(0); read(data.data(), size); return data
FileStore_get_read(t) ==
  /\ pc[t] = "fget_read"
  /\ Finish(t, [status |-> "ok",
                value |-> ReadInto(files[realPath(call[t].key)], local[t])])
  /\ UNCHANGED <<backend, frame, writes, storeVars, call, local, elapsed, sleep, globalHist, hist>>

\* variant: the return value of stat is not tested
StatIgnored(fs, path) == TRUE

\* stat(path) == 0
StatOk(fs, path) == path \in DOMAIN fs

\* the keys that name an entry below another key: "a/x" is the file x in
\* the directory entry of key "a"
Below == {<<realPath("a/x"), realPath("a")>>}

\* variant: every failure of stat is taken for a missing file
ErrnoAlwaysENOENT(fs, path) == "ENOENT"

\* errno after stat(path) != 0: ENOTDIR when a component of the path is a
\* regular file, ENOENT when the path names nothing
Errno(fs, path) ==
  IF \E b \in Below : b[1] = path /\ b[2] \in DOMAIN fs
  THEN "ENOTDIR" ELSE "ENOENT"

\* FileStore::wait: stat of the next key of the round
FileStore_wait_stat(t) ==
  /\ pc[t] = "fwait_stat"
  /\ LET ks == call[t].keys
     IN IF StatOk(files, realPath(ks[local[t]]))
        THEN IF local[t] = Len(ks)
             THEN /\ Finish(t, [status |-> "ok", value |-> <<>>])
                  /\ observed' = observed \cup Range(ks)
                  /\ UNCHANGED local
             ELSE /\ local' = [local EXCEPT ![t] = @ + 1]
                  /\ UNCHANGED <<pc, ret, observed>>
        ELSE IF Errno(files, realPath(ks[local[t]])) = "ENOENT"
        THEN /\ pc' = [pc EXCEPT ![t] = "fwait_now"]
             /\ UNCHANGED <<local, ret, observed>>
        ELSE /\ Finish(t, [status |-> "system", value |-> <<>>])
             /\ UNCHANGED <<local, observed>>
  /\ UNCHANGED <<backend, frame, writes, storeVars, call, elapsed, sleep, published,
                 lastRet, hist>>

\* variant: the comparison is reversed
TimedOutReversed(e, T) == T > e

\* elapsed > timeout
TimedOut(e, T) == e > T

\* FileStore::wait after a round that found a key missing: read the clock,
\* throw or start sleep_for(10ms)
FileStore_wait_now(t) ==
  /\ pc[t] = "fwait_now"
  /\ IF TimedOut(elapsed[t], call[t].timeout)
     THEN /\ Finish(t, [status |-> "timeout", value |-> <<>>])
          /\ UNCHANGED sleep
     ELSE /\ pc' = [pc EXCEPT ![t] = "fwait_sleep"]
          /\ sleep' = [sleep EXCEPT ![t] = PollInterval]
          /\ UNCHANGED ret
  /\ UNCHANGED <<backend, frame, writes, storeVars, call, local, elapsed, globalHist, hist>>

\* sleep_for returns once the interval has passed; the next round starts
FileStore_wait_wake(t) ==
  /\ pc[t] = "fwait_sleep"
  /\ sleep[t] = 0
  /\ pc' = [pc EXCEPT ![t] = "fwait_stat"]
  /\ local' = [local EXCEPT ![t] = 1]
  /\ UNCHANGED <<backend, frame, writes, storeVars, call, elapsed, sleep, ret, globalHist, hist>>

\* ------------------------------------------------------------------ time
\* one millisecond passes on steady_clock
Tick ==
  /\ elapsed' = [t \in Threads |->
                   IF pc[t] \in WaitPcs THEN Min(elapsed[t] + 1, MaxTimeout + 1)
                   ELSE elapsed[t]]
  /\ sleep' = [t \in Threads |-> IF sleep[t] > 0 THEN sleep[t] - 1 ELSE 0]
  /\ hist' = [t \in Threads |->
                IF pc[t] \in WaitPcs /\ elapsed[t] + 1 = call[t].timeout
                THEN [hist[t] EXCEPT !.pubAtDl = (Range(call[t].keys) \subseteq published)]
                ELSE hist[t]]
  /\ UNCHANGED <<backend, frame, writes, storeVars, pc, call, local, ret, globalHist>>

\* ------------------------------------------------------------------ Next
Next ==
  \/ \E t \in Setters, k \in Keys, v \in Values : CallSet(t, k, v)
  \/ \E t \in Getters, k \in Keys : CallGet(t, k)
  \/ \E t \in Waiters, ks \in KeyVectors, T \in Timeouts : CallWait(t, ks, T)
  \/ \E t \in Threads : Return(t)
  \/ \E t \in Threads : HashStore_lock(t)
  \/ \E t \in Threads : HashStore_set(t)
  \/ \E t \in Threads : HashStore_get(t)
  \/ \E t \in Threads : HashStore_wait_check(t)
  \/ \E t \in Threads : WaitUntilExpire(t)
  \/ \E t \in Threads : SpuriousWakeup(t)
  \/ \E t \in Threads : HashStore_wait_until_return(t)
  \/ \E t \in Threads : HashStore_wait_cv_return(t)
  \/ \E t \in Threads : FileStore_set_open(t)
  \/ \E t \in Threads : FileStore_set_write(t)
  \/ \E t \in Threads : FileStore_get_open(t)
  \/ \E t \in Threads : FileStore_get_read(t)
  \/ \E t \in Threads : FileStore_wait_stat(t)
  \/ \E t \in Threads : FileStore_wait_now(t)
  \/ \E t \in Threads : FileStore_wait_wake(t)
  \/ Tick

Spec == Init /\ [][Next]_vars

\* a thread that is inside a call keeps running: every step that does not
\* need the mutex
Step(t) ==
  \/ HashStore_set(t) \/ HashStore_get(t) \/ HashStore_wait_check(t)
  \/ WaitUntilExpire(t)
  \/ FileStore_set_open(t) \/ FileStore_set_write(t)
  \/ FileStore_get_open(t) \/ FileStore_get_read(t)
  \/ FileStore_wait_stat(t) \/ FileStore_wait_now(t) \/ FileStore_wait_wake(t)

\* the steps that take the mutex
Acquire(t) ==
  \/ HashStore_lock(t)
  \/ HashStore_wait_until_return(t)
  \/ HashStore_wait_cv_return(t)

\* the clock advances, running threads make progress, and a thread that
\* finds the mutex free again and again eventually gets it; callers are free
\* to stop calling, and spurious wake-ups need not happen
Fairness ==
  /\ WF_vars(Tick)
  /\ \A t \in Threads : WF_vars(Step(t)) /\ SF_vars(Acquire(t))

\* the calls that matter to a blocked waiter: thread 1 keeps publishing,
\* thread 2 keeps waiting
LiveNext ==
  \/ \E k \in Keys, v \in Values : CallSet(1, k, v)
  \/ \E t \in Waiters, ks \in KeyVectors, T \in Timeouts : CallWait(t, ks, T)
  \/ \E t \in Threads : Return(t)
  \/ \E t \in Threads : HashStore_lock(t)
  \/ \E t \in Threads : HashStore_set(t)
  \/ \E t \in Threads : HashStore_wait_check(t)
  \/ \E t \in Threads : WaitUntilExpire(t)
  \/ \E t \in Threads : SpuriousWakeup(t)
  \/ \E t \in Threads : HashStore_wait_until_return(t)
  \/ \E t \in Threads : HashStore_wait_cv_return(t)
  \/ \E t \in Threads : FileStore_set_open(t)
  \/ \E t \in Threads : FileStore_set_write(t)
  \/ \E t \in Threads : FileStore_wait_stat(t)
  \/ \E t \in Threads : FileStore_wait_now(t)
  \/ \E t \in Threads : FileStore_wait_wake(t)
  \/ Tick

LiveSpec == Init /\ [][LiveNext]_vars /\ Fairness

TypeOK ==
  /\ backend \in Backends
  /\ mutex_ \in Threads \cup {NoThread}
  /\ cvWaiters \subseteq Threads
  /\ published \subseteq Keys
  /\ observed \subseteq Keys

\* ----------------------------------------------------------- definitions
\* used by the properties
Done(t, op) == pc[t] = "done" /\ call[t].op = op
Ok(t) == ret[t].status = "ok"
Present(k) ==
  IF backend = "hash" THEN k \in DOMAIN map_ ELSE realPath(k) \in DOMAIN files
EverSet(k) == k \in published \/ SetInProgress(k)
FiniteWait(t) == call[t].op = "wait" /\ call[t].timeout # kNoTimeout

\* ------------------------------------------------------------ properties
\* C1 (as stated): once set(k, v) has returned and no later set on k has
\* started, get(k) returns exactly v.
C1_Original ==
  \A t \in Threads :
    Done(t, "get") =>
      \A p \in hist[t].gexp : Ok(t) /\ ret[t].value = p[1]

\* C1 (amended): once set(k, v) has returned, no other set on k having been
\* in progress at any time since that set was called, get(k) returns exactly
\* v, in both backends.
C1_PublishThenRead ==
  \A t \in Threads :
    Done(t, "get") =>
      \A p \in hist[t].gexp : p[2] => (Ok(t) /\ ret[t].value = p[1])

C1_Witness ==
  \E t \in Threads :
    /\ Done(t, "get")
    /\ hist[t].gexp = {<<ret[t].value, TRUE>>}
    /\ Ok(t)
    /\ ret[t].value = <<1>>

\* C2: after a wait that covered key k has returned successfully, a get(k)
\* called afterwards does not fail with missing-key, in both backends.
C2_ReadinessBarrier ==
  \A t \in Threads : (Done(t, "get") /\ hist[t].gobs) => Ok(t)

C2_Witness ==
  \E t \in Threads : Done(t, "get") /\ hist[t].gobs /\ Ok(t)

\* C3: in the FileStore, a get(k) called after a wait has observed k as
\* present returns a complete value passed to set, never an empty or
\* partially written one.
C3_NoPartialValue ==
  \A t \in Threads :
    (backend = "file" /\ Done(t, "get") /\ hist[t].gobs) =>
      (Ok(t) /\ ret[t].value \in Values)

C5_WaitTimesOut ==
  \A t \in Threads :
    (pc[t] \in WaitPcs /\ FiniteWait(t))
      ~> (Done(t, "wait") /\ (ret[t].status = "timeout"
                               \/ \A k \in Range(call[t].keys) : Present(k)))

C5_Witness ==
  \E t \in Threads :
    /\ Done(t, "wait") /\ FiniteWait(t) /\ ret[t].status = "timeout"
    /\ \E k \in Range(call[t].keys) : ~Present(k)
    /\ \E k \in Keys \ Range(call[t].keys) : Present(k)

\* C6: no wait fails with a timeout before its timeout T has elapsed since
\* the call started, in either backend.
C6_NoEarlyTimeout ==
  \A t \in Threads :
    (Done(t, "wait") /\ FiniteWait(t) /\ ret[t].status = "timeout") =>
      elapsed[t] >= call[t].timeout

C6_Witness ==
  \E t \in Threads :
    /\ Done(t, "wait") /\ ret[t].status = "timeout"
    /\ call[t].timeout = MaxTimeout

\* C7: FileStore::wait called with the no-timeout sentinel never fails with
\* a timeout and returns only when every key exists.
C7_FileNoTimeoutBlocks ==
  \A t \in Threads :
    (backend = "file" /\ Done(t, "wait") /\ call[t].timeout = kNoTimeout) =>
      (Ok(t) /\ \A k \in Range(call[t].keys) : realPath(k) \in DOMAIN files)

\* C8: HashStore::wait called with kNoTimeout never fails with a timeout,
\* returns only in a state where every key is in the map, and returns
\* eventually once every key is in the map.
C8_HashNoTimeoutBlocks ==
  /\ [](\A t \in Threads :
          (backend = "hash" /\ Done(t, "wait") /\ call[t].timeout = kNoTimeout)
            => (Ok(t) /\ allFound(call[t].keys)))
  /\ \A t \in Threads :
       (pc[t] \in HashWaitPcs /\ call[t].timeout = kNoTimeout
          /\ allFound(call[t].keys))
         ~> Done(t, "wait")

C8_Witness ==
  \E t \in Threads :
    /\ backend = "hash" /\ Done(t, "wait") /\ call[t].timeout = kNoTimeout
    /\ Ok(t) /\ ~hist[t].pubAtCall

\* C9: the sentinel and a zero timeout are told apart: a wait with the
\* sentinel never takes the timed path nor reports a timeout, and a wait
\* with a zero timeout on an absent key never takes the untimed path.
C9_SentinelDistinct ==
  \A t \in Threads :
    call[t].op = "wait" =>
      /\ call[t].timeout = kNoTimeout =>
           (pc[t] # "hwait_until" /\ ret[t].status # "timeout")
      /\ call[t].timeout = 0 => pc[t] # "hwait_cv"

\* C10: get on a key no set was ever called on fails with the missing-key
\* error instead of returning a value, never blocks on the condition
\* variable or in a sleep, and its steps leave the store unchanged.
C10_MissingKey ==
  /\ [](\A t \in Threads :
          /\ (Done(t, "get") /\ ~EverSet(call[t].key)) => ret[t].status = "missing"
          /\ pc[t] \in GetPcs => (t \notin cvWaiters /\ sleep[t] = 0))
  /\ [][\A t \in Threads :
          (pc[t] \in {"hget_cs", "fget_open", "fget_read"} /\ pc'[t] # pc[t])
            => (map_' = map_ /\ files' = files)]_vars

C10_Witness ==
  \E t \in Threads :
    Done(t, "get") /\ ~EverSet(call[t].key) /\ ret[t].status = "missing"

\* =========================================================================
\* The extended operations of Store (multi_get, multi_set, append, add),
\* which the backends inherit, and the PrefixStore decorator.  A client calls
\* an operation on a Store object: the backend itself or a PrefixStore over
\* it.  Every backend call such an operation makes runs through the HashStore
\* and FileStore steps above.
\* =========================================================================

\* ---------------------------------------------------------------- bounds
\* the clients of the sequential specifications
Clients == {1}
\* prefix_ of the decorators, keys given to them
Prefixes == {"p", "pa"}
PrefixKeys == {"b", "ab"}
PrefixKeyVectors == {<<"b">>, <<"ab">>, <<"b", "ab">>}
\* longest value append is asked to build, largest counter add is asked for
MaxLen == 4
MaxCounter == 8

\* ------------------------------------------------------------- constants
\* sizeof(int64_t)
SizeofInt64 == 8

\* variant: the decorator forwards the key as it is
joinPrefixDropped(prefix_, key) == key

\* PrefixStore::set / get / wait: prefix_ + key
joinPrefix(prefix_, key) == prefix_ \o key

\* variant: a decorator calls the backend itself, whatever it wraps
store_Skipped(via) == <<>>

\* PrefixStore::store_, the store the outermost decorator of via wraps: the
\* next decorator, or the backend
store_(via) == Tail(via)

\* the key the backend receives for a key given to the outermost decorator
RECURSIVE prefixed(_, _)
prefixed(via, key) ==
  IF via = <<>> THEN key ELSE prefixed(store_(via), joinPrefix(Head(via), key))

\* Store::has_v2_support, which neither HashStore nor FileStore overrides
\* (a backend "v2" is a store that does) and PrefixStore forwards to its
\* store_
RECURSIVE has_v2_support(_)
has_v2_support(via) ==
  IF via = <<>> THEN backend = "v2" ELSE has_v2_support(store_(via))

\* a get or set made by the Store default of operation op (which runs where
\* has_v2_support() is false) for thread t has returned or thrown
BackendDone(t, op) ==
  pc[t] = "done" /\ frame[t].op = op /\ ~has_v2_support(frame[t].via)

\* the stacks of two decorators, outermost first
NestedVias == {<<"p", "pa">>, <<"pa", "p">>}

\* every key a backend can be given
PhysKeys ==
  Keys \cup PrefixKeys
    \cup {prefixed(<<p>>, k) : p \in Prefixes, k \in Keys \cup PrefixKeys}
    \cup {prefixed(via, k) : via \in NestedVias, k \in PrefixKeys}

\* the threads that have called an operation and not taken its outcome
Inside == {u \in Threads : frame[u].op # "none"}

\* the backend as a mapping: the present keys and what get returns for them
Stored ==
  [k \in {x \in PhysKeys : Present(x)} |->
     IF backend = "hash" THEN map_[k] ELSE files[realPath(k)]]

\* memcpy(newData.data(), &current, sizeof(int64_t)): the object
\* representation of an int64_t, two's complement, least significant byte
\* first
RECURSIVE toBytes(_, _)
toBytes(n, len) ==
  IF len = 0 THEN <<>> ELSE <<n % 256>> \o toBytes(n \div 256, len - 1)

\* memcpy(&current, data.data(), sizeof(int64_t)) of a vector of that size
RECURSIVE fromBytes(_)
fromBytes(bytes) ==
  IF Len(bytes) = 1
  THEN IF bytes[1] >= 128 THEN bytes[1] - 256 ELSE bytes[1]
  ELSE bytes[1] + 256 * fromBytes(Tail(bytes))

\* ----------------------------------------------------- calls on a backend
\* a Store operation enters set(k, v) or get(k) of the backend
BackendCall(t, op, k, v) ==
  /\ pc' = [pc EXCEPT ![t] =
              IF op = "set"
              THEN (IF backend = "hash" THEN "hset_lock" ELSE "fset_open")
              ELSE (IF backend = "hash" THEN "hget_lock" ELSE "fget_open")]
  /\ call' = [call EXCEPT ![t] = [NoCall EXCEPT !.op = op, !.key = k, !.data = v]]

\* the operation returns r to the client, or fails with r
OpFinish(t, r) ==
  /\ pc' = [pc EXCEPT ![t] = "end"]
  /\ ret' = [ret EXCEPT ![t] = r]
  /\ call' = [call EXCEPT ![t] = NoCall]

OkRet == [status |-> "ok", value |-> <<>>]


\* ------------------------------------------- set, get, wait of a decorator
\* set(k, v) on the backend or through the decorators of via
Store_set(t, via, k, v) ==
  /\ pc[t] = "idle"
  /\ frame' = [frame EXCEPT ![t] =
                 [NoFrame EXCEPT !.op = "set", !.via = via, !.key = k,
                                 !.data = v, !.pre = Stored, !.among = Inside]]
  /\ writes' = writes \cup {<<via, k>>}
  /\ BackendCall(t, "set", prefixed(via, k), v)
  /\ UNCHANGED <<backend, storeVars, local, elapsed, sleep, ret, globalHist, hist>>

\* get(k) on the backend or through the decorators of via
Store_get(t, via, k) ==
  /\ pc[t] = "idle"
  /\ frame' = [frame EXCEPT ![t] =
                 [NoFrame EXCEPT !.op = "get", !.via = via, !.key = k,
                                 !.pre = Stored, !.among = Inside]]
  /\ BackendCall(t, "get", prefixed(via, k), <<>>)
  /\ UNCHANGED <<backend, storeVars, local, elapsed, sleep, ret, globalHist,
                 hist, writes>>

\* wait(ks, T) on the backend or through the decorators of via: the loop
\* that builds prefixedKeys, then store_.wait(prefixedKeys, timeout)
Store_wait(t, via, ks, T) ==
  /\ pc[t] = "idle"
  /\ frame' = [frame EXCEPT ![t] =
                 [NoFrame EXCEPT !.op = "wait", !.via = via, !.keys = ks,
                                 !.timeout = T, !.pre = Stored, !.among = Inside]]
  /\ pc' = [pc EXCEPT ![t] = IF backend = "hash" THEN "hwait_lock" ELSE "fwait_stat"]
  /\ call' = [call EXCEPT ![t] =
                [NoCall EXCEPT !.op = "wait", !.timeout = T,
                               !.keys = [i \in 1 .. Len(ks) |-> prefixed(via, ks[i])]]]
  /\ local' = [local EXCEPT ![t] = 1]
  /\ elapsed' = [elapsed EXCEPT ![t] = 0]
  /\ UNCHANGED <<backend, storeVars, sleep, ret, globalHist, hist, writes>>

\* the backend call of a forwarded set, get or wait is over: its outcome is
\* the outcome of the operation
Store_forwarded(t) ==
  /\ pc[t] = "done"
  /\ frame[t].op \in {"set", "get", "wait"}
  /\ pc' = [pc EXCEPT ![t] = "end"]
  /\ UNCHANGED <<backend, storeVars, call, local, elapsed, sleep, ret,
                 globalHist, hist, frame, writes>>

\* the client takes the outcome of the operation
Store_return(t) ==
  /\ pc[t] = "end"
  /\ pc' = [pc EXCEPT ![t] = "idle"]
  /\ call' = [call EXCEPT ![t] = NoCall]
  /\ local' = [local EXCEPT ![t] = 0]
  /\ elapsed' = [elapsed EXCEPT ![t] = 0]
  /\ ret' = [ret EXCEPT ![t] = NoRet]
  /\ frame' = [frame EXCEPT ![t] = NoFrame]
  /\ UNCHANGED <<backend, storeVars, sleep, globalHist, hist, writes>>

\* the state before any call of the specifications below
StoreInit ==
  /\ backend \in Backends
  /\ map_ = <<>>
  /\ mutex_ = NoThread
  /\ cvWaiters = {}
  /\ files = <<>>
  /\ pc = [t \in Threads |-> "idle"]
  /\ call = [t \in Threads |-> NoCall]
  /\ local = [t \in Threads |-> 0]
  /\ elapsed = [t \in Threads |-> 0]
  /\ sleep = [t \in Threads |-> 0]
  /\ ret = [t \in Threads |-> NoRet]
  /\ published = {}
  /\ lastRet = [k \in PhysKeys |-> {}]
  /\ observed = {}
  /\ hist = [t \in Threads |-> NoHist]
  /\ frame = [t \in Threads |-> NoFrame]
  /\ writes = {}

\* ------------------------------------------------------------ PrefixSpec
\* one client at a time uses two decorators over the same backend
PrefixNext ==
  \/ \E t \in Clients, p \in Prefixes, k \in PrefixKeys, v \in Values :
       Store_set(t, <<p>>, k, v)
  \/ \E t \in Clients, p \in Prefixes, k \in PrefixKeys : Store_get(t, <<p>>, k)
  \/ \E t \in Clients, p \in Prefixes, ks \in PrefixKeyVectors, T \in Timeouts :
       Store_wait(t, <<p>>, ks, T)
  \/ \E t \in Clients : Store_forwarded(t)
  \/ \E t \in Clients : Store_return(t)
  \/ \E t \in Clients : HashStore_lock(t)
  \/ \E t \in Clients : HashStore_set(t)
  \/ \E t \in Clients : HashStore_get(t)
  \/ \E t \in Clients : HashStore_wait_check(t)
  \/ \E t \in Clients : WaitUntilExpire(t)
  \/ \E t \in Clients : SpuriousWakeup(t)
  \/ \E t \in Clients : HashStore_wait_until_return(t)
  \/ \E t \in Clients : HashStore_wait_cv_return(t)
  \/ \E t \in Clients : FileStore_set_open(t)
  \/ \E t \in Clients : FileStore_set_write(t)
  \/ \E t \in Clients : FileStore_get_open(t)
  \/ \E t \in Clients : FileStore_get_read(t)
  \/ \E t \in Clients : FileStore_wait_stat(t)
  \/ \E t \in Clients : FileStore_wait_now(t)
  \/ \E t \in Clients : FileStore_wait_wake(t)
  \/ Tick

PrefixSpec == StoreInit /\ [][PrefixNext]_vars

\* the operation op of thread t is over and its outcome is in ret[t]
Ended(t, op) == pc[t] = "end" /\ frame[t].op = op
\* what a get of backend key k would return: the value, or nothing
ReadAt(k) == IF Present(k) THEN {Stored[k]} ELSE {}

\* C11: with decorators A and B of distinct prefixes over one backend, as
\* long as the only writes called are sets through A on key x, a get(x)
\* through B fails with the missing-key error and a wait on x through B does
\* not succeed; and no step of a set through A changes what B reads under
\* the same key.
C11_PrefixIsolation ==
  /\ [](\A t \in Threads, A \in Prefixes, x \in PrefixKeys :
          (writes \subseteq {<<<<A>>, x>>} /\ frame[t].via # <<A>>) =>
            /\ (Ended(t, "get") /\ frame[t].key = x) => ret[t].status = "missing"
            /\ (Ended(t, "wait") /\ x \in Range(frame[t].keys)) => ret[t].status # "ok")
  /\ [][\A t \in Threads, B \in Prefixes, k \in PhysKeys :
          (frame[t].op = "set" /\ frame[t].via # <<B>>
             /\ k = prefixed(<<B>>, frame[t].key)) => ReadAt(k)' = ReadAt(k)]_vars

C11_Witness ==
  \E t \in Threads, A \in Prefixes :
    /\ Ended(t, "get") /\ frame[t].via # <<A>> /\ ret[t].status = "missing"
    /\ writes = {<<<<A>>, frame[t].key>>}
    /\ Present(prefixed(<<A>>, frame[t].key))

\* C12: keys written through one decorator are never observable through a
\* decorator of a different prefix, whatever the keys: a get through a
\* decorator succeeds only if some write was called through that decorator.
C12_DisjointKeySpaces ==
  \A t \in Threads :
    (Ended(t, "get") /\ Ok(t)) => \E w \in writes : w[1] = frame[t].via

\* ---------------------------------------------------- generic Store::add
\* variant: the calls are not virtual and reach the backend with the key as
\* given
virtualKeyStatic(via, key) == key

\* this->get(key), this->set(key, ...) inside the generic operations: the
\* call is virtual, so a key given to a decorator runs through
\* PrefixStore::get / set and receives each prefix once
virtualKey(via, key) == prefixed(via, key)

\* variant: the exception is swallowed and the operation goes on with an
\* empty vector
thrownIgnored(r) == FALSE

\* the backend call ended with an exception, which no generic operation
\* catches
thrown(r) == r.status # "ok"

\* variant: the vector is copied into current whatever its size
currentOfAnySize(data) == IF data = <<>> THEN 0 ELSE fromBytes(data)

\* int64_t current = 0; if (data.size() == sizeof(int64_t)) memcpy(...)
currentOf(data) == IF Len(data) = SizeofInt64 THEN fromBytes(data) ELSE 0

\* variant: current = value
accumulateReplaced(current, value) == value

\* current += value
accumulate(current, value) == current + value

\* the counter add would read now from backend key k
CounterAt(k) == IF Present(k) THEN currentOf(Stored[k]) ELSE 0
InRange(n) == 0 - MaxCounter <= n /\ n <= MaxCounter

\* add(k, d) on the backend or through the decorators of via (where
\* has_v2_support() is false and Store::add runs): auto data = get(key)
Store_add(t, via, k, d) ==
  /\ pc[t] = "idle"
  /\ ~has_v2_support(via)
  /\ InRange(CounterAt(virtualKey(via, k)) + d)
  /\ frame' = [frame EXCEPT ![t] =
                 [NoFrame EXCEPT !.op = "add", !.via = via, !.key = k,
                                 !.delta = d, !.i = 1, !.pre = Stored, !.among = Inside]]
  /\ writes' = writes \cup {<<via, k>>}
  /\ BackendCall(t, "get", virtualKey(via, k), <<>>)
  /\ UNCHANGED <<backend, storeVars, local, elapsed, sleep, ret, globalHist, hist>>

\* get has returned data or thrown: the exception leaves add, otherwise
\* current is computed and set(key, newData) is called
Store_add_set(t) ==
  /\ BackendDone(t, "add")
  /\ frame[t].i = 1
  /\ IF thrown(ret[t])
     THEN /\ OpFinish(t, ret[t])
          /\ UNCHANGED frame
     ELSE LET current == accumulate(currentOf(ret[t].value), frame[t].delta)
          IN /\ frame' = [frame EXCEPT ![t].i = 2, ![t].result = current]
             /\ BackendCall(t, "set", virtualKey(frame[t].via, frame[t].key),
                            toBytes(current, SizeofInt64))
             /\ UNCHANGED ret
  /\ UNCHANGED <<backend, storeVars, local, elapsed, sleep, globalHist, hist, writes>>

\* set has returned: return current
Store_add_return(t) ==
  /\ BackendDone(t, "add")
  /\ frame[t].i = 2
  /\ OpFinish(t, [status |-> "ok", value |-> frame[t].result])
  /\ UNCHANGED <<backend, storeVars, local, elapsed, sleep, globalHist, hist,
                 frame, writes>>

\* ----------------------------------------------------------- CounterSpec
\* the 8-byte value that stands for the counter n, for the small n used here
Encoding(n) ==
  IF n >= 0 THEN <<n, 0, 0, 0, 0, 0, 0, 0>>
  ELSE <<256 + n, 255, 255, 255, 255, 255, 255, 255>>

CounterVias == {<<>>, <<"p">>}
CounterKeys == {"a"}
CounterValues == {<<>>, <<1>>, <<2, 3>>, Encoding(0), Encoding(5), Encoding(0 - 1)}
Deltas == {5, 3, 0 - 1}

\* one client at a time sets, adds and gets, on the backend or a decorator
CounterNext ==
  \/ \E t \in Clients, via \in CounterVias, k \in CounterKeys, v \in CounterValues :
       Store_set(t, via, k, v)
  \/ \E t \in Clients, via \in CounterVias, k \in CounterKeys : Store_get(t, via, k)
  \/ \E t \in Clients, via \in CounterVias, k \in CounterKeys, d \in Deltas :
       Store_add(t, via, k, d)
  \/ \E t \in Clients : Store_add_set(t)
  \/ \E t \in Clients : Store_add_return(t)
  \/ \E t \in Clients : Store_forwarded(t)
  \/ \E t \in Clients : Store_return(t)
  \/ \E t \in Clients : HashStore_lock(t)
  \/ \E t \in Clients : HashStore_set(t)
  \/ \E t \in Clients : HashStore_get(t)
  \/ \E t \in Clients : FileStore_set_open(t)
  \/ \E t \in Clients : FileStore_set_write(t)
  \/ \E t \in Clients : FileStore_get_open(t)
  \/ \E t \in Clients : FileStore_get_read(t)

CounterSpec == StoreInit /\ [][CounterNext]_vars

\* the backend key the operation of thread t works on
KeyOf(t) == prefixed(frame[t].via, frame[t].key)

\* C13: add(k, d) on a key that was absent when add was called returns d
\* without a missing-key failure and leaves the 8-byte encoding of d in k.
C13_CounterFromAbsent ==
  \A t \in Threads :
    (Ended(t, "add") /\ KeyOf(t) \notin DOMAIN frame[t].pre) =>
      /\ Ok(t) /\ ret[t].value = frame[t].delta
      /\ ReadAt(KeyOf(t)) = {Encoding(frame[t].delta)}

\* C14: add(k, d) on a key that held the 8-byte encoding of n when add was
\* called returns n + d and leaves exactly the 8-byte encoding of n + d in
\* k, which a following get returns.
C14_CounterAccumulates ==
  \A t \in Threads, n \in (0 - MaxCounter) .. MaxCounter :
    /\ (Ended(t, "add") /\ KeyOf(t) \in DOMAIN frame[t].pre
          /\ frame[t].pre[KeyOf(t)] = Encoding(n)) =>
         /\ Ok(t) /\ ret[t].value = n + frame[t].delta
         /\ ReadAt(KeyOf(t)) = {Encoding(n + frame[t].delta)}
    /\ (Ended(t, "get") /\ KeyOf(t) \in DOMAIN frame[t].pre
          /\ frame[t].pre[KeyOf(t)] = Encoding(n)) =>
         (Ok(t) /\ ret[t].value = Encoding(n))

C14_Witness ==
  \E t \in Threads :
    /\ Ended(t, "add") /\ Ok(t) /\ ret[t].value = 8 /\ frame[t].delta = 3
    /\ KeyOf(t) \in DOMAIN frame[t].pre
    /\ frame[t].pre[KeyOf(t)] = Encoding(5)
    /\ ReadAt(KeyOf(t)) = {Encoding(8)}

\* C15: add(k, d) on a key that held a value of another length than 8 bytes
\* (the empty value included) when add was called does not fail, returns d
\* and leaves the 8-byte encoding of d in k.
C15_WrongLengthIsZero ==
  \A t \in Threads :
    (Ended(t, "add") /\ KeyOf(t) \in DOMAIN frame[t].pre
       /\ Len(frame[t].pre[KeyOf(t)]) # SizeofInt64) =>
      /\ Ok(t) /\ ret[t].value = frame[t].delta
      /\ ReadAt(KeyOf(t)) = {Encoding(frame[t].delta)}

C15_Witness ==
  \E t \in Threads :
    /\ Ended(t, "add") /\ Ok(t) /\ ret[t].value = frame[t].delta
    /\ KeyOf(t) \in DOMAIN frame[t].pre
    /\ frame[t].pre[KeyOf(t)] = <<>>
    /\ ReadAt(KeyOf(t)) = {Encoding(frame[t].delta)}

\* ------------------------------- generic Store::multi_set and multi_get
\* what reading values[i] past the end of the vector may yield when it does
\* not crash
Garbage == {<<>>, <<7>>}

\* one pass of the loop of Store::multi_set with the frame f: the loop ends
\* when i reaches keys.size(); values[i] is read unchecked, which past the
\* end of values is undefined: a crash or a set of some garbage vector
multi_set_loop(t, f) ==
  /\ frame' = [frame EXCEPT ![t] = f]
  /\ IF f.i > Len(f.keys)
     THEN OpFinish(t, OkRet)
     ELSE IF f.i <= Len(f.values)
     THEN /\ BackendCall(t, "set", virtualKey(f.via, f.keys[f.i]), f.values[f.i])
          /\ ret' = [ret EXCEPT ![t] = NoRet]
     ELSE \/ OpFinish(t, [status |-> "crash", value |-> <<>>])
          \/ \E g \in Garbage :
               /\ BackendCall(t, "set", virtualKey(f.via, f.keys[f.i]), g)
               /\ ret' = [ret EXCEPT ![t] = NoRet]

\* multi_set(ks, vs) on the backend or through the decorators of via (where
\* has_v2_support() is false and Store::multi_set runs)
Store_multi_set(t, via, ks, vs) ==
  /\ pc[t] = "idle"
  /\ ~has_v2_support(via)
  /\ writes' = writes \cup {<<via, ks[i]>> : i \in 1 .. Len(ks)}
  /\ multi_set_loop(t, [NoFrame EXCEPT !.op = "multi_set", !.via = via,
                                       !.keys = ks, !.values = vs, !.i = 1,
                                       !.pre = Stored, !.among = Inside])
  /\ UNCHANGED <<backend, storeVars, local, elapsed, sleep, globalHist, hist>>

\* set(keys[i], values[i]) has returned: i++
Store_multi_set_next(t) ==
  /\ BackendDone(t, "multi_set")
  /\ multi_set_loop(t, [frame[t] EXCEPT !.i = @ + 1])
  /\ UNCHANGED <<backend, storeVars, local, elapsed, sleep, globalHist, hist, writes>>

\* variant: the value is inserted at the front of result
pushFront(result, value) == <<value>> \o result

\* result.push_back(get(key))
push_back(result, value) == Append(result, value)

\* one pass of the loop of Store::multi_get with the frame f
multi_get_loop(t, f) ==
  /\ frame' = [frame EXCEPT ![t] = f]
  /\ IF f.i > Len(f.keys)
     THEN OpFinish(t, [status |-> "ok", value |-> f.result])
     ELSE /\ BackendCall(t, "get", virtualKey(f.via, f.keys[f.i]), <<>>)
          /\ ret' = [ret EXCEPT ![t] = NoRet]

\* multi_get(ks) on the backend or through the decorators of via (where
\* has_v2_support() is false and Store::multi_get runs)
Store_multi_get(t, via, ks) ==
  /\ pc[t] = "idle"
  /\ ~has_v2_support(via)
  /\ multi_get_loop(t, [NoFrame EXCEPT !.op = "multi_get", !.via = via,
                                       !.keys = ks, !.i = 1, !.pre = Stored, !.among = Inside])
  /\ UNCHANGED <<backend, storeVars, local, elapsed, sleep, globalHist, hist, writes>>

\* get(key) has returned a value, which is pushed, or thrown, which ends
\* multi_get
Store_multi_get_next(t) ==
  /\ BackendDone(t, "multi_get")
  /\ IF thrown(ret[t])
     THEN /\ OpFinish(t, ret[t])
          /\ UNCHANGED frame
     ELSE multi_get_loop(t, [frame[t] EXCEPT !.i = @ + 1,
                                             !.result = push_back(@, ret[t].value)])
  /\ UNCHANGED <<backend, storeVars, local, elapsed, sleep, globalHist, hist, writes>>

\* ------------------------------------------------------------- BatchSpec
BatchVias == {<<>>, <<"p">>}
BatchKeyVectors == {<<"a">>, <<"a", "b">>, <<"b", "b">>}
BatchValueVectors == {<<<<1>>>>, <<<<1>>, <<2, 3>>>>, <<<<2, 3>>, <<1>>>>}

\* one client at a time calls multi_set and multi_get, on the backend or a
\* decorator
BatchNext ==
  \/ \E t \in Clients, via \in BatchVias, ks \in BatchKeyVectors,
        vs \in BatchValueVectors : Store_multi_set(t, via, ks, vs)
  \/ \E t \in Clients, via \in BatchVias, ks \in BatchKeyVectors :
       Store_multi_get(t, via, ks)
  \/ \E t \in Clients : Store_multi_set_next(t)
  \/ \E t \in Clients : Store_multi_get_next(t)
  \/ \E t \in Clients : Store_return(t)
  \/ \E t \in Clients : HashStore_lock(t)
  \/ \E t \in Clients : HashStore_set(t)
  \/ \E t \in Clients : HashStore_get(t)
  \/ \E t \in Clients : FileStore_set_open(t)
  \/ \E t \in Clients : FileStore_set_write(t)
  \/ \E t \in Clients : FileStore_get_open(t)
  \/ \E t \in Clients : FileStore_get_read(t)

BatchSpec == StoreInit /\ [][BatchNext]_vars

\* the operation of thread t was given as many values as keys
SameSize(t) == Len(frame[t].keys) = Len(frame[t].values)

\* the mapping after set(p + ks[i], vs[i]) for i = 1, 2, ... made on mapping m
RECURSIVE SetEach(_, _, _, _)
SetEach(m, p, ks, vs) ==
  IF ks = <<>> THEN m
  ELSE SetEach((p \o Head(ks) :> Head(vs)) @@ m, p, Tail(ks), Tail(vs))

\* C16: multi_set with keys.size() != values.size() sets no key and fails
\* with an argument error, on a backend and through a PrefixStore.
C16_MultiSetArgumentCheck ==
  \A t \in Threads :
    (frame[t].op = "multi_set" /\ ~SameSize(t)) =>
      /\ Stored = frame[t].pre
      /\ pc[t] = "end" => ret[t].status = "argument"

\* C17: multi_set(keys, values) through a PrefixStore of prefix p over a
\* backend without v2 support leaves the backend as the calls
\* set(p + keys[i], values[i]) made on it in index order would: each key
\* carries the prefix exactly once.
C17_FallbackEquivalence ==
  \A t \in Threads, p \in Prefixes :
    (Ended(t, "multi_set") /\ frame[t].via = <<p>> /\ SameSize(t)) =>
      /\ Ok(t)
      /\ Stored = SetEach(frame[t].pre, p, frame[t].keys, frame[t].values)

C17_Witness ==
  \E t \in Threads :
    /\ Ended(t, "multi_set") /\ frame[t].via = <<"p">> /\ Ok(t)
    /\ frame[t].keys = <<"a", "b">> /\ SameSize(t)
    /\ ReadAt("pa") = {frame[t].values[1]} /\ ReadAt("pb") = {frame[t].values[2]}
    /\ "pa" \notin DOMAIN frame[t].pre

\* C18: multi_get leaves the store as it was, and when its keys were all
\* present it returns as many values as keys, the i-th being the value of
\* keys[i] (a key given twice is answered twice).
C18_MultiGetOrder ==
  \A t \in Threads :
    frame[t].op = "multi_get" =>
      /\ Stored = frame[t].pre
      /\ LET ks == frame[t].keys
             at(i) == prefixed(frame[t].via, ks[i])
         IN (pc[t] = "end" /\ \A i \in 1 .. Len(ks) : at(i) \in DOMAIN frame[t].pre) =>
              /\ Ok(t) /\ Len(ret[t].value) = Len(ks)
              /\ \A i \in 1 .. Len(ks) : ret[t].value[i] = frame[t].pre[at(i)]

C18_Witness ==
  \E t \in Threads :
    /\ Ended(t, "multi_get") /\ Ok(t)
    /\ frame[t].keys = <<"a", "b">>
    /\ ret[t].value = <<frame[t].pre[prefixed(frame[t].via, "a")], frame[t].pre[prefixed(frame[t].via, "b")]>>
    /\ ret[t].value[1] # ret[t].value[2]

\* ------------------------------------------------- generic Store::append
\* variant: value is inserted at existing.begin()
insertBegin(existing, value) == value \o existing

\* existing.insert(existing.end(), value.begin(), value.end())
insertEnd(existing, value) == existing \o value

\* append(k, v) on the backend or through the decorators of via (where
\* has_v2_support() is false and Store::append runs): auto existing = get(key)
Store_append(t, via, k, v) ==
  /\ pc[t] = "idle"
  /\ ~has_v2_support(via)
  /\ Present(virtualKey(via, k)) => Len(Stored[virtualKey(via, k)]) + Len(v) <= MaxLen
  /\ frame' = [frame EXCEPT ![t] =
                 [NoFrame EXCEPT !.op = "append", !.via = via, !.key = k,
                                 !.data = v, !.i = 1, !.pre = Stored, !.among = Inside]]
  /\ writes' = writes \cup {<<via, k>>}
  /\ BackendCall(t, "get", virtualKey(via, k), <<>>)
  /\ UNCHANGED <<backend, storeVars, local, elapsed, sleep, ret, globalHist, hist>>

\* get has returned existing or thrown: the exception leaves append,
\* otherwise value is inserted and set(key, existing) is called
Store_append_set(t) ==
  /\ BackendDone(t, "append")
  /\ frame[t].i = 1
  /\ IF thrown(ret[t])
     THEN /\ OpFinish(t, ret[t])
          /\ UNCHANGED frame
     ELSE /\ frame' = [frame EXCEPT ![t].i = 2]
          /\ BackendCall(t, "set", virtualKey(frame[t].via, frame[t].key),
                         insertEnd(ret[t].value, frame[t].data))
          /\ UNCHANGED ret
  /\ UNCHANGED <<backend, storeVars, local, elapsed, sleep, globalHist, hist, writes>>

\* set has returned: append returns
Store_append_return(t) ==
  /\ BackendDone(t, "append")
  /\ frame[t].i = 2
  /\ OpFinish(t, OkRet)
  /\ UNCHANGED <<backend, storeVars, local, elapsed, sleep, globalHist, hist,
                 frame, writes>>

\* ------------------------------------------------------------ AppendSpec
AppendVias == {<<>>, <<"p">>}
AppendKeys == {"a"}
AppendValues == {<<>>, <<1>>, <<2, 3>>}

\* one client at a time sets, appends and gets, on the backend or a decorator
AppendNext ==
  \/ \E t \in Clients, via \in AppendVias, k \in AppendKeys, v \in AppendValues :
       Store_set(t, via, k, v)
  \/ \E t \in Clients, via \in AppendVias, k \in AppendKeys : Store_get(t, via, k)
  \/ \E t \in Clients, via \in AppendVias, k \in AppendKeys, v \in AppendValues :
       Store_append(t, via, k, v)
  \/ \E t \in Clients : Store_append_set(t)
  \/ \E t \in Clients : Store_append_return(t)
  \/ \E t \in Clients : Store_forwarded(t)
  \/ \E t \in Clients : Store_return(t)
  \/ \E t \in Clients : HashStore_lock(t)
  \/ \E t \in Clients : HashStore_set(t)
  \/ \E t \in Clients : HashStore_get(t)
  \/ \E t \in Clients : FileStore_set_open(t)
  \/ \E t \in Clients : FileStore_set_write(t)
  \/ \E t \in Clients : FileStore_get_open(t)
  \/ \E t \in Clients : FileStore_get_read(t)

AppendSpec == StoreInit /\ [][AppendNext]_vars

\* the key of the operation of thread t was present when it was called
WasPresent(t) == KeyOf(t) \in DOMAIN frame[t].pre

\* C19: append(k, v) on a key that held e when append was called leaves
\* exactly e followed by v in k and touches no other key; a following get
\* returns it.
C19_AppendConcatenates ==
  \A t \in Threads :
    /\ (Ended(t, "append") /\ WasPresent(t)) =>
         /\ Ok(t)
         /\ Stored = (KeyOf(t) :> frame[t].pre[KeyOf(t)] \o frame[t].data)
                        @@ frame[t].pre
    /\ (Ended(t, "get") /\ WasPresent(t)) =>
         (Ok(t) /\ ret[t].value = frame[t].pre[KeyOf(t)])

C19_Witness ==
  \E t \in Threads :
    /\ Ended(t, "append") /\ WasPresent(t) /\ Ok(t)
    /\ frame[t].pre[KeyOf(t)] = <<1, 2, 3>> /\ frame[t].data = <<1>>
    /\ ReadAt(KeyOf(t)) = {<<1, 2, 3, 1>>}

\* C20: append(k, v) on a key that was absent when append was called fails
\* with the missing-key error of get, creates no key and leaves the store
\* as it was, on both backends, directly and through a PrefixStore.
C20_AppendAbsentFails ==
  \A t \in Threads :
    (frame[t].op = "append" /\ ~WasPresent(t)) =>
      /\ Stored = frame[t].pre
      /\ pc[t] = "end" => ret[t].status = "missing"

C20_Witness ==
  \E t \in Threads :
    /\ Ended(t, "append") /\ ~WasPresent(t) /\ frame[t].via = <<"p">>
    /\ ret[t].status = "missing" /\ ~Present(KeyOf(t))
    /\ frame[t].pre # <<>>

\* -------------------------------------------------------------- RaceSpec
\* two callers, one append or add each, on a key that holds a value
RaceKey == "a"
\* the two threads that race on RaceKey
Racers == {1, 2}
RaceValues == {<<1>>, Encoding(0), Encoding(5)}
RaceAppends == {<<1>>, <<2, 3>>}
RaceDeltas == {3, 1}

\* the store after set(RaceKey, e) for some e
RaceInit ==
  /\ backend \in Backends
  /\ \E e \in RaceValues :
       /\ map_ = IF backend = "hash" THEN RaceKey :> e ELSE <<>>
       /\ files = IF backend = "file" THEN realPath(RaceKey) :> e ELSE <<>>
  /\ mutex_ = NoThread
  /\ cvWaiters = {}
  /\ pc = [t \in Threads |-> "idle"]
  /\ call = [t \in Threads |-> NoCall]
  /\ local = [t \in Threads |-> 0]
  /\ elapsed = [t \in Threads |-> 0]
  /\ sleep = [t \in Threads |-> 0]
  /\ ret = [t \in Threads |-> NoRet]
  /\ published = {RaceKey}
  /\ lastRet = [k \in PhysKeys |-> {}]
  /\ observed = {}
  /\ hist = [t \in Threads |-> NoHist]
  /\ frame = [t \in Threads |-> NoFrame]
  /\ writes = {}

\* each of the two racing threads makes one call and keeps its outcome
RaceNext ==
  \/ \E t \in Racers, v \in RaceAppends : Store_append(t, <<>>, RaceKey, v)
  \/ \E t \in Racers, d \in RaceDeltas : Store_add(t, <<>>, RaceKey, d)
  \/ \E t \in Threads : Store_append_set(t)
  \/ \E t \in Threads : Store_append_return(t)
  \/ \E t \in Threads : Store_add_set(t)
  \/ \E t \in Threads : Store_add_return(t)
  \/ \E t \in Threads : HashStore_lock(t)
  \/ \E t \in Threads : HashStore_set(t)
  \/ \E t \in Threads : HashStore_get(t)
  \/ \E t \in Threads : FileStore_set_open(t)
  \/ \E t \in Threads : FileStore_set_write(t)
  \/ \E t \in Threads : FileStore_get_open(t)
  \/ \E t \in Threads : FileStore_get_read(t)

RaceSpec == RaceInit /\ [][RaceNext]_vars

\* both threads have made their call of op and both calls are over
BothEnded(op) == \A t \in Racers : Ended(t, op)
\* the value the key held when the first of the two calls was made
Before(e) == \E t \in Racers : frame[t].among = {} /\ frame[t].pre[RaceKey] = e

\* C21: two concurrent append(k, a) and append(k, b) on a HashStore key
\* holding e both return without error and leave e+a, e+b, e+a+b or e+b+a
\* in k and nothing else; e+a alone or e+b alone (a lost append) does occur.
C21_AppendOutcomes ==
  (backend = "hash" /\ BothEnded("append")) =>
    /\ \A t \in Racers : Ok(t)
    /\ \E e \in RaceValues :
         /\ Before(e)
         /\ LET a == frame[1].data
                b == frame[2].data
            IN Stored[RaceKey] \in {e \o a, e \o b, e \o a \o b, e \o b \o a}

C21_Witness ==
  /\ backend = "hash" /\ BothEnded("append")
  /\ \A t \in Racers : Ok(t) /\ frame[t].pre[RaceKey] = <<1>>
  /\ frame[1].data = <<2, 3>> /\ frame[2].data = <<1>>
  /\ Stored[RaceKey] = <<1, 2, 3>>

\* C22: two concurrent add(k, d1) and add(k, d2) on a HashStore key holding
\* the counter n both return without error; the stored counter ends as
\* n + d1, n + d2 or n + d1 + d2, and each caller is returned its own
\* n + d or the full sum; the lost increment does occur, with both callers
\* returned a total that is not the sum.
C22_AddOutcomes ==
  \A n \in (0 - MaxCounter) .. MaxCounter :
    (backend = "hash" /\ BothEnded("add") /\ Before(Encoding(n))) =>
      /\ \A t \in Racers : Ok(t)
      /\ LET d1 == frame[1].delta
             d2 == frame[2].delta
         IN /\ Stored[RaceKey] \in
                 {Encoding(n + d1), Encoding(n + d2), Encoding(n + d1 + d2)}
            /\ ret[1].value \in {n + d1, n + d1 + d2}
            /\ ret[2].value \in {n + d2, n + d1 + d2}

C22_Witness ==
  /\ backend = "hash" /\ BothEnded("add")
  /\ \A t \in Racers : Ok(t) /\ frame[t].pre[RaceKey] = Encoding(5)
  /\ frame[1].delta = 3 /\ frame[2].delta = 1
  /\ ret[1].value = 8 /\ ret[2].value = 6
  /\ Stored[RaceKey] = Encoding(8)

\* ------------------------------------------------- properties of Spec
\* C23: a key that is present stays present: no step of set, get or wait,
\* the truncating open of an overwriting FileStore::set included, removes a
\* key from the map or a file from the directory; so a key once observed by
\* get or wait is never absent afterwards.
C23_MonotonicPublication ==
  /\ [][\A k \in PhysKeys : Present(k) => Present(k)']_vars
  /\ [](\A k \in observed : Present(k))

C23_Witness ==
  \E t \in Threads :
    /\ pc[t] = "fset_write" /\ local[t] = 0
    /\ call[t].key \in observed
    /\ Present(call[t].key)
    /\ files[realPath(call[t].key)] = <<>>

\* C24: no step of a wait, successful or timed out, changes the mapping
\* from keys to values; and a thread that is outside a call, or has the
\* outcome of one (a timeout included), neither holds the mutex nor is queued
\* on the condition variable, so the store carries no trace of a finished
\* wait and later calls proceed as if it had not been made.
C24_WaitLeavesNoTrace ==
  /\ [][\A t \in Threads :
          ((pc[t] \in WaitPcs \/ pc'[t] \in WaitPcs) /\ pc'[t] # pc[t])
            => (map_' = map_ /\ files' = files)]_vars
  /\ [](\A t \in Threads :
          pc[t] \in {"idle", "done"} => (mutex_ # t /\ t \notin cvWaiters))

C24_Witness ==
  \E t, u \in Threads :
    /\ backend = "hash"
    /\ Done(t, "wait") /\ ret[t].status = "timeout"
    /\ pc[u] = "hset_cs" /\ mutex_ = u
    /\ call[u].key \in Range(call[t].keys)

\* ------------------------------------------------------- LastWriterSpec
\* the two racing threads each call set(RaceKey, v) once; when both calls
\* are over a third thread calls get(RaceKey)
LastWriterNext ==
  \/ \E t \in Racers, v \in Values : Store_set(t, <<>>, RaceKey, v)
  \/ \E t \in Threads \ Racers :
       BothEnded("set") /\ Store_get(t, <<>>, RaceKey)
  \/ \E t \in Threads : Store_forwarded(t)
  \/ \E t \in Threads : HashStore_lock(t)
  \/ \E t \in Threads : HashStore_set(t)
  \/ \E t \in Threads : HashStore_get(t)
  \/ \E t \in Threads : FileStore_set_open(t)
  \/ \E t \in Threads : FileStore_set_write(t)
  \/ \E t \in Threads : FileStore_get_open(t)
  \/ \E t \in Threads : FileStore_get_read(t)

LastWriterSpec == RaceInit /\ [][LastWriterNext]_vars

\* C26: after set(k, v1) and set(k, v2), made concurrently by two threads
\* with no other writer of k, have both returned, get(k) returns exactly v1
\* or exactly v2, in the HashStore and in the FileStore.
C26_LastWriterWins ==
  \A t \in Threads \ Racers :
    Ended(t, "get") =>
      (Ok(t) /\ ret[t].value \in {frame[u].data : u \in Racers})

\* ------------------------------------------- properties of LiveSpec
\* C28: no lost wakeup in the HashStore: a wait(K, T) whose keys have all
\* been published by sets that returned before its deadline, or whose T is
\* the sentinel, does not fail with a timeout, and a waiter whose keys have
\* all been published eventually returns.
C28_NoLostWakeup ==
  /\ [](\A t \in Threads :
          (backend = "hash" /\ Done(t, "wait")
             /\ (call[t].timeout = kNoTimeout \/ hist[t].pubAtDl)) => Ok(t))
  /\ \A t \in Threads :
       (backend = "hash" /\ pc[t] \in HashWaitPcs
          /\ Range(call[t].keys) \subseteq published)
         ~> Done(t, "wait")

\* C30: a wait(K, T) called when every key of K is present returns
\* successfully, for every T (zero and the sentinel included) and in both
\* backends, without blocking on the condition variable, reading the clock
\* or sleeping for the polling interval.
C30_PresentReturnsAtOnce ==
  /\ [](\A t \in Threads :
          (call[t].op = "wait" /\ hist[t].presAtCall) =>
            /\ pc[t] \notin {"hwait_until", "hwait_cv", "fwait_now", "fwait_sleep"}
            /\ t \notin cvWaiters
            /\ pc[t] = "done" => Ok(t))
  /\ \A t \in Threads :
       (pc[t] \in WaitPcs /\ hist[t].presAtCall) ~> (Done(t, "wait") /\ Ok(t))

C30_Witness ==
  \E t \in Threads :
    /\ Done(t, "wait") /\ hist[t].presAtCall /\ Ok(t)
    /\ call[t].timeout = 0 /\ Len(call[t].keys) = 2
    /\ elapsed[t] > 0

\* ---------------------------------------------------------- WaitersSpec
\* the HashStore with two waiters on different key sets: thread 1 sets and
\* gets, thread 2 waits on "a" and "b" with any timeout, thread 3
\* waits on "b" without timeout
WaitersInit == Init /\ backend = "hash"

WaitersNext ==
  \/ \E k \in Keys : CallSet(1, k, <<1>>)
  \/ \E k \in Keys : CallGet(1, k)
  \/ \E T \in Timeouts : CallWait(2, <<"a", "b">>, T)
  \/ CallWait(3, <<"b">>, kNoTimeout)
  \/ \E t \in Threads : Return(t)
  \/ \E t \in Threads : HashStore_lock(t)
  \/ \E t \in Threads : HashStore_set(t)
  \/ \E t \in Threads : HashStore_get(t)
  \/ \E t \in Threads : HashStore_wait_check(t)
  \/ \E t \in Threads : WaitUntilExpire(t)
  \/ \E t \in Threads : SpuriousWakeup(t)
  \/ \E t \in Threads : HashStore_wait_until_return(t)
  \/ \E t \in Threads : HashStore_wait_cv_return(t)
  \/ Tick

WaitersSpec == WaitersInit /\ [][WaitersNext]_vars /\ Fairness

HashSetGetPcs == {"hset_lock", "hset_cs", "hget_lock", "hget_cs"}

\* C27: in the HashStore a thread blocked in wait does not hold the mutex;
\* a set or get that has taken the mutex returns or fails in its next step
\* and leaves the mutex free; and every set and get eventually completes,
\* however many threads are blocked in wait.
C27_SetGetDoNotBlock ==
  /\ [](\A t \in Threads : t \in cvWaiters => mutex_ # t)
  /\ [][\A t \in Threads :
          (pc[t] \in {"hset_cs", "hget_cs"} /\ pc'[t] # pc[t]) =>
            (pc'[t] = "done" /\ mutex_ = t /\ mutex_' = NoThread)]_vars
  /\ \A t \in Threads : (pc[t] \in HashSetGetPcs) ~> (pc[t] = "done")

C27_Witness ==
  /\ cvWaiters = {2, 3}
  /\ pc[2] = "hwait_until" /\ pc[3] = "hwait_cv"
  /\ Done(1, "get") /\ ret[1].status = "missing"

\* C29: HashStore::wait returns successfully only from the check made with
\* the mutex held, in a state where every key of its own set is in the map:
\* a notify_all caused by another key, by some of its keys only, or a
\* spurious wake-up sends it back to sleep; and of two waiters on different
\* key sets, the one whose keys are all in the map is released while the
\* other stays blocked.
C29_RecheckAfterWake ==
  /\ [][\A t \in Threads :
          (pc[t] \in HashWaitPcs /\ pc'[t] = "done" /\ ret'[t].status = "ok") =>
            /\ pc[t] = "hwait_check" /\ mutex_ = t
            /\ \A k \in Range(call[t].keys) : k \in DOMAIN map_]_vars
  /\ [][\A t \in Threads :
          (pc[t] \in {"hwait_until", "hwait_cv"} /\ pc'[t] = "hwait_check"
             /\ \E k \in Range(call[t].keys) : k \notin DOMAIN map_') =>
            mutex_' = t]_vars
  /\ [](\A t \in Threads :
          (pc[t] = "hwait_check" /\ \E k \in Range(call[t].keys) : k \notin DOMAIN map_)
            => mutex_ = t)
  /\ \A t \in Threads :
       (pc[t] \in HashWaitPcs /\ call[t].timeout = kNoTimeout
          /\ \A k \in Range(call[t].keys) : k \in DOMAIN map_)
         ~> (Done(t, "wait") /\ Ok(t))

C29_Witness ==
  /\ Done(3, "wait") /\ Ok(3)
  /\ pc[2] = "hwait_cv" /\ 2 \in cvWaiters
  /\ call[2].keys = <<"a", "b">>
  /\ "a" \notin DOMAIN map_
  /\ ~hist[3].presAtCall

\* ------------------------------------------------------- RendezvousSpec
\* bootstrap of a job of three processes over one store: participant t
\* publishes its address under "rank{t-1}.addr", waits for the three keys,
\* then reads the keys of the other two
RankKeys == <<"rank0.addr", "rank1.addr", "rank2.addr">>
Address(t) == <<t>>
RendezvousTimeout == MaxTimeout

\* the keys participant t reads, in order
Others(t) == SelectSeq(RankKeys, LAMBDA k : k # RankKeys[t])

RendezvousInit ==
  /\ backend \in Backends
  /\ map_ = <<>>
  /\ mutex_ = NoThread
  /\ cvWaiters = {}
  /\ files = <<>>
  /\ pc = [t \in Threads |-> "idle"]
  /\ call = [t \in Threads |-> NoCall]
  /\ local = [t \in Threads |-> 0]
  /\ elapsed = [t \in Threads |-> 0]
  /\ sleep = [t \in Threads |-> 0]
  /\ ret = [t \in Threads |-> NoRet]
  /\ published = {}
  /\ lastRet = [k \in Range(RankKeys) |-> {}]
  /\ observed = {}
  /\ hist = [t \in Threads |-> NoHist]
  /\ frame = [t \in Threads |-> NoFrame]
  /\ writes = {}

\* set("rank{i}.addr", addr_i)
Rendezvous_set(t) ==
  /\ pc[t] = "idle"
  /\ frame[t].op = "none"
  /\ frame' = [frame EXCEPT ![t] =
                 [NoFrame EXCEPT !.op = "rendezvous", !.key = RankKeys[t],
                                 !.data = Address(t), !.keys = Others(t),
                                 !.timeout = RendezvousTimeout]]
  /\ BackendCall(t, "set", RankKeys[t], Address(t))
  /\ UNCHANGED <<backend, storeVars, local, elapsed, sleep, ret, globalHist,
                 hist, writes>>

\* wait(["rank0.addr", "rank1.addr", "rank2.addr"], timeout) once the set
\* has returned
Rendezvous_wait(t) ==
  /\ BackendDone(t, "rendezvous")
  /\ call[t].op = "set"
  /\ pc' = [pc EXCEPT ![t] = IF backend = "hash" THEN "hwait_lock" ELSE "fwait_stat"]
  /\ call' = [call EXCEPT ![t] = [NoCall EXCEPT !.op = "wait", !.keys = RankKeys,
                                                !.timeout = frame[t].timeout]]
  /\ local' = [local EXCEPT ![t] = 1]
  /\ elapsed' = [elapsed EXCEPT ![t] = 0]
  /\ hist' = [hist EXCEPT ![t] =
                [NoHist EXCEPT !.pubAtCall = (Range(RankKeys) \subseteq published),
                               !.pubAtDl = (frame[t].timeout = 0
                                              /\ Range(RankKeys) \subseteq published)]]
  /\ UNCHANGED <<backend, storeVars, sleep, ret, globalHist, frame, writes>>

\* get of the next key of another participant, once the wait or the
\* previous get has returned
Rendezvous_get(t) ==
  /\ BackendDone(t, "rendezvous")
  /\ call[t].op \in {"wait", "get"}
  /\ ret[t].status = "ok"
  /\ frame[t].i < Len(frame[t].keys)
  /\ frame' = [frame EXCEPT ![t].i = @ + 1,
                            ![t].result = IF call[t].op = "get"
                                          THEN Append(@, ret[t].value) ELSE @]
  /\ BackendCall(t, "get", frame[t].keys[frame[t].i + 1], <<>>)
  /\ UNCHANGED <<backend, storeVars, local, elapsed, sleep, ret, globalHist,
                 hist, writes>>

\* the participant has read both keys, or an exception of wait or get has
\* ended its bootstrap
Rendezvous_return(t) ==
  /\ BackendDone(t, "rendezvous")
  /\ \/ /\ ret[t].status # "ok"
        /\ OpFinish(t, ret[t])
        /\ UNCHANGED frame
     \/ /\ ret[t].status = "ok"
        /\ call[t].op = "get"
        /\ frame[t].i = Len(frame[t].keys)
        /\ OpFinish(t, [status |-> "ok", value |-> <<>>])
        /\ frame' = [frame EXCEPT ![t].result = Append(@, ret[t].value)]
  /\ UNCHANGED <<backend, storeVars, local, elapsed, sleep, globalHist, hist,
                 writes>>

Participant(t) ==
  \/ Rendezvous_set(t) \/ Rendezvous_wait(t)
  \/ Rendezvous_get(t) \/ Rendezvous_return(t)

RendezvousNext ==
  \/ \E t \in Threads : Rendezvous_set(t)
  \/ \E t \in Threads : Rendezvous_wait(t)
  \/ \E t \in Threads : Rendezvous_get(t)
  \/ \E t \in Threads : Rendezvous_return(t)
  \/ \E t \in Threads : HashStore_lock(t)
  \/ \E t \in Threads : HashStore_set(t)
  \/ \E t \in Threads : HashStore_get(t)
  \/ \E t \in Threads : HashStore_wait_check(t)
  \/ \E t \in Threads : WaitUntilExpire(t)
  \/ \E t \in Threads : SpuriousWakeup(t)
  \/ \E t \in Threads : HashStore_wait_until_return(t)
  \/ \E t \in Threads : FileStore_set_open(t)
  \/ \E t \in Threads : FileStore_set_write(t)
  \/ \E t \in Threads : FileStore_get_open(t)
  \/ \E t \in Threads : FileStore_get_read(t)
  \/ \E t \in Threads : FileStore_wait_stat(t)
  \/ \E t \in Threads : FileStore_wait_now(t)
  \/ \E t \in Threads : FileStore_wait_wake(t)
  \/ Tick

RendezvousSpec ==
  /\ RendezvousInit /\ [][RendezvousNext]_vars
  /\ Fairness
  /\ \A t \in Threads : WF_vars(Participant(t))

\* the deadline of the wait of participant t was reached before the three
\* sets had all returned
Expired(t) ==
  /\ frame[t].op = "rendezvous" /\ call[t].op # "set"
  /\ elapsed[t] >= frame[t].timeout
  /\ ~hist[t].pubAtDl

\* the participant that publishes key k
Owner(k) == CHOOSE t \in Threads : RankKeys[t] = k

\* C25: in the rendezvous of three participants, as long as no wait has
\* reached its deadline before the three sets had returned, every wait that
\* has returned succeeded and every get that has returned succeeded with
\* exactly the address published by the owner of the key; and all three
\* participants eventually finish.
C25_Rendezvous ==
  /\ []((\A u \in Threads : ~Expired(u)) =>
          \A t \in Threads :
            BackendDone(t, "rendezvous") =>
              /\ Ok(t)
              /\ call[t].op = "get" => ret[t].value = Address(Owner(call[t].key)))
  /\ <>(\A t \in Threads : Ended(t, "rendezvous"))

\* ------------------------------------------ properties of WaitersSpec
CriticalPcs == {"hset_cs", "hget_cs", "hwait_check"}

\* C37: at most one thread is inside a HashStore critical section (the
\* insert of set, the lookup of get, the key check of wait) and it owns the
\* mutex; the map changes only in a step of the owner of the mutex, which is
\* inside set; and a thread sleeping in wait, or woken and not yet running,
\* does not own the mutex.
C37_MutualExclusion ==
  /\ [](\A t, u \in Threads :
          (pc[t] \in CriticalPcs /\ pc[u] \in CriticalPcs) => t = u)
  /\ [](\A t \in Threads : pc[t] \in CriticalPcs <=> mutex_ = t)
  /\ [][map_' # map_ =>
          \E t \in Threads :
            mutex_ = t /\ pc[t] = "hset_cs" /\ pc'[t] = "done"]_vars
  /\ [](\A t \in Threads :
          (pc[t] \in {"hwait_until", "hwait_cv"} \/ t \in cvWaiters) => mutex_ # t)

C37_Witness ==
  /\ pc[1] = "hset_cs" /\ mutex_ = 1
  /\ pc[2] = "hwait_lock"
  /\ pc[3] = "hwait_cv" /\ 3 \notin cvWaiters

\* ------------------------------------------------- properties of Spec
\* C36: HashStore::wait fails with a timeout only in a step in which, with
\* the mutex free for it to take after the timed sleep, at least one of its
\* keys is absent from the map.
C36_NoTimeoutWhilePresent ==
  [][\A t \in Threads :
       (backend = "hash" /\ pc[t] \in HashWaitPcs /\ pc'[t] = "done"
          /\ ret'[t].status = "timeout") =>
         \E k \in Range(call[t].keys) : k \notin DOMAIN map_]_vars

\* -------------------------------------------- properties of PrefixSpec
\* C33: through a PrefixStore of prefix p over backend S, set(k, v) leaves S
\* as it was but for key p + k, which holds v; get(k) leaves S as it was and
\* returns the value S held under p + k, or fails with the missing-key error
\* when S held none; wait(K, T) leaves S as it was, is run by S on the keys
\* p + k in the order given and with timeout T, and ends with the outcome S
\* gave: success exactly when S held every p + k, a timeout otherwise.
C33_PrefixForwarding ==
  /\ [](\A t \in Threads, p \in Prefixes :
          (pc[t] = "end" /\ frame[t].via = <<p>>) =>
            LET at == p \o frame[t].key
                pre == frame[t].pre
            IN /\ frame[t].op = "set" =>
                    (Ok(t) /\ Stored = (at :> frame[t].data) @@ pre)
               /\ frame[t].op = "get" =>
                    /\ Stored = pre
                    /\ IF at \in DOMAIN pre
                       THEN Ok(t) /\ ret[t].value = pre[at]
                       ELSE ret[t].status = "missing"
               /\ frame[t].op = "wait" =>
                    /\ Stored = pre
                    /\ Ok(t) <=> \A k \in Range(frame[t].keys) : p \o k \in DOMAIN pre
                    /\ ret[t].status \in {"ok", "timeout"})
  /\ [](\A t \in Threads, p \in Prefixes :
          (frame[t].op = "wait" /\ frame[t].via = <<p>>) =>
            /\ call[t].op = "wait"
            /\ call[t].timeout = frame[t].timeout
            /\ Len(call[t].keys) = Len(frame[t].keys)
            /\ \A i \in 1 .. Len(frame[t].keys) :
                 call[t].keys[i] = p \o frame[t].keys[i])
  /\ [][\A t \in Threads :
          (pc[t] = "done" /\ pc'[t] = "end"
             /\ frame[t].op \in {"set", "get", "wait"}) => ret'[t] = ret[t]]_vars

C33_Witness ==
  \E t \in Threads :
    /\ Ended(t, "wait") /\ frame[t].via = <<"pa">> /\ Ok(t)
    /\ frame[t].keys = <<"b", "ab">> /\ frame[t].timeout = 0
    /\ DOMAIN Stored = {"pab", "paab"}

\* ---------------------------------------------------------- FallbackSpec
\* one client uses a backend without v2 support both directly, with the
\* keys "pa" and "pb", and through a decorator of prefix "p", with the keys
\* "a" and "b"
FallbackTargets ==
  {<<<<>>, "pa">>, <<<<>>, "pb">>, <<<<"p">>, "a">>, <<<<"p">>, "b">>}
FallbackKeyVectors ==
  {<<<<>>, <<"pa">>>>, <<<<>>, <<"pb", "pa">>>>,
   <<<<"p">>, <<"a">>>>, <<<<"p">>, <<"b", "a">>>>}
FallbackValues == {<<1>>, Encoding(5)}
FallbackAppends == {<<2, 3>>}
FallbackDeltas == {3, 0 - 1}

FallbackNext ==
  \/ \E t \in Clients, c \in FallbackTargets, v \in FallbackValues :
       Store_set(t, c[1], c[2], v)
  \/ \E t \in Clients, c \in FallbackKeyVectors : Store_multi_get(t, c[1], c[2])
  \/ \E t \in Clients, c \in FallbackTargets, v \in FallbackAppends :
       Store_append(t, c[1], c[2], v)
  \/ \E t \in Clients, c \in FallbackTargets, d \in FallbackDeltas :
       Store_add(t, c[1], c[2], d)
  \/ \E t \in Clients : Store_multi_get_next(t)
  \/ \E t \in Clients : Store_append_set(t)
  \/ \E t \in Clients : Store_append_return(t)
  \/ \E t \in Clients : Store_add_set(t)
  \/ \E t \in Clients : Store_add_return(t)
  \/ \E t \in Clients : Store_forwarded(t)
  \/ \E t \in Clients : Store_return(t)
  \/ \E t \in Clients : HashStore_lock(t)
  \/ \E t \in Clients : HashStore_set(t)
  \/ \E t \in Clients : HashStore_get(t)
  \/ \E t \in Clients : FileStore_set_open(t)
  \/ \E t \in Clients : FileStore_set_write(t)
  \/ \E t \in Clients : FileStore_get_open(t)
  \/ \E t \in Clients : FileStore_get_read(t)

FallbackSpec == StoreInit /\ [][FallbackNext]_vars

Missing == [status |-> "missing", value |-> <<>>]

\* the counter a value stands for: the n it encodes, zero for a value that
\* is not 8 bytes long
Decoded(data) ==
  IF Len(data) = 8
  THEN CHOOSE n \in (0 - 2 * MaxCounter) .. (2 * MaxCounter) : Encoding(n) = data
  ELSE 0

\* outcome <<result, store>> of the generic multi_get, append and add made
\* on a store holding pre, with the keys as the store knows them
GenericMultiGet(pre, ks) ==
  <<IF \A i \in 1 .. Len(ks) : ks[i] \in DOMAIN pre
    THEN [status |-> "ok", value |-> [i \in 1 .. Len(ks) |-> pre[ks[i]]]]
    ELSE Missing,
    pre>>
GenericAppend(pre, k, v) ==
  IF k \in DOMAIN pre THEN <<OkRet, (k :> pre[k] \o v) @@ pre>>
  ELSE <<Missing, pre>>
GenericAdd(pre, k, d) ==
  IF k \in DOMAIN pre
  THEN <<[status |-> "ok", value |-> Decoded(pre[k]) + d],
         (k :> Encoding(Decoded(pre[k]) + d)) @@ pre>>
  ELSE <<Missing, pre>>

\* the key of S that key k given to the object of via stands for: p + k
\* through the decorator of prefix p, k itself on S
OnBackend(via, k) == IF via = <<>> THEN k ELSE via[1] \o k

\* C35: over a backend S without v2 support, multi_get, append and add have
\* the result and the effect on S of the generic operation made on S with
\* the keys p + k, whether they were called through the decorator of prefix
\* p with the keys k or on S itself with the keys p + k.
C35_FallbackSameAsDirect ==
  \A t \in Threads :
    pc[t] = "end" =>
      LET f == frame[t]
          out == <<ret[t], Stored>>
      IN /\ f.op = "multi_get" =>
              out = GenericMultiGet(f.pre, [i \in 1 .. Len(f.keys) |->
                                              OnBackend(f.via, f.keys[i])])
         /\ f.op = "append" =>
              out = GenericAppend(f.pre, OnBackend(f.via, f.key), f.data)
         /\ f.op = "add" =>
              out = GenericAdd(f.pre, OnBackend(f.via, f.key), f.delta)

C35_Witness ==
  \E t \in Threads :
    /\ Ended(t, "add") /\ frame[t].via = <<"p">> /\ frame[t].key = "a"
    /\ writes = {<<<<>>, "pa">>, <<<<"p">>, "a">>}
    /\ frame[t].pre = ("pa" :> Encoding(5))
    /\ ret[t].value = 4
    /\ Stored = ("pa" :> Encoding(4))

\* ------------------------------------------------------------ NestedSpec
\* one client uses decorators stacked two deep over a backend without v2
\* support: PrefixStore(via[1], PrefixStore(via[2], S))
NestedBatches ==
  {<<<<"b">>, <<<<1>>>>>>, <<<<"ab", "b">>, <<Encoding(5), <<2, 3>>>>>>}
NestedKeyVectors == {<<"b">>, <<"ab", "b">>}
NestedAppends == {<<2, 3>>}
NestedDeltas == {3}
\* the stack the batch operations and wait are called on, the key the
\* single-key operations are called with
NestedVia == <<"p", "pa">>
NestedKey == "b"

NestedNext ==
  \/ \E t \in Clients, via \in NestedVias, v \in FallbackValues :
       Store_set(t, via, NestedKey, v)
  \/ \E t \in Clients, via \in NestedVias : Store_get(t, via, NestedKey)
  \/ \E t \in Clients, ks \in NestedKeyVectors, T \in Timeouts :
       Store_wait(t, NestedVia, ks, T)
  \/ \E t \in Clients, ks \in NestedKeyVectors :
       Store_multi_get(t, NestedVia, ks)
  \/ \E t \in Clients, b \in NestedBatches :
       Store_multi_set(t, NestedVia, b[1], b[2])
  \/ \E t \in Clients, v \in NestedAppends :
       Store_append(t, NestedVia, NestedKey, v)
  \/ \E t \in Clients, d \in NestedDeltas :
       Store_add(t, NestedVia, NestedKey, d)
  \/ \E t \in Clients : Store_multi_get_next(t)
  \/ \E t \in Clients : Store_multi_set_next(t)
  \/ \E t \in Clients : Store_append_set(t)
  \/ \E t \in Clients : Store_append_return(t)
  \/ \E t \in Clients : Store_add_set(t)
  \/ \E t \in Clients : Store_add_return(t)
  \/ \E t \in Clients : Store_forwarded(t)
  \/ \E t \in Clients : Store_return(t)
  \/ \E t \in Clients : HashStore_lock(t)
  \/ \E t \in Clients : HashStore_set(t)
  \/ \E t \in Clients : HashStore_get(t)
  \/ \E t \in Clients : HashStore_wait_check(t)
  \/ \E t \in Clients : WaitUntilExpire(t)
  \/ \E t \in Clients : SpuriousWakeup(t)
  \/ \E t \in Clients : HashStore_wait_until_return(t)
  \/ \E t \in Clients : HashStore_wait_cv_return(t)
  \/ \E t \in Clients : FileStore_set_open(t)
  \/ \E t \in Clients : FileStore_set_write(t)
  \/ \E t \in Clients : FileStore_get_open(t)
  \/ \E t \in Clients : FileStore_get_read(t)
  \/ \E t \in Clients : FileStore_wait_stat(t)
  \/ \E t \in Clients : FileStore_wait_now(t)
  \/ \E t \in Clients : FileStore_wait_wake(t)
  \/ Tick

NestedSpec == StoreInit /\ [][NestedNext]_vars

\* the key of S that key k given to PrefixStore(p1, PrefixStore(p2, S))
\* stands for, with via = <<p1, p2>>: p2 + p1 + k
Innermost(via, k) == via[2] \o via[1] \o k

\* the store after the pairs of ks and vs were written into pre, in order
RECURSIVE WrittenInOrder(_, _, _)
WrittenInOrder(pre, ks, vs) ==
  IF ks = <<>> THEN pre
  ELSE WrittenInOrder((Head(ks) :> Head(vs)) @@ pre, Tail(ks), Tail(vs))

\* C38: through PrefixStore(p1, PrefixStore(p2, S)) over a backend S without
\* v2 support, every operation on the key k has the result and the effect
\* on S of the operation made with the key p2 + p1 + k, every key S is
\* given is such a key, and has_v2_support() is that of S at every level.
C38_NestedDecorators ==
  \A t \in Threads :
    frame[t].via \in NestedVias =>
      LET f == frame[t]
          at == Innermost(f.via, f.key)
          ats == [i \in 1 .. Len(f.keys) |-> Innermost(f.via, f.keys[i])]
          out == <<ret[t], Stored>>
      IN /\ has_v2_support(f.via) = has_v2_support(<<>>)
         /\ has_v2_support(store_(f.via)) = has_v2_support(<<>>)
         /\ pc[t] \in SetPcs \cup GetPcs =>
              call[t].key \in {at} \cup Range(ats)
         /\ pc[t] \in WaitPcs => call[t].keys = ats
         /\ pc[t] = "end" =>
              /\ f.op = "set" => out = <<OkRet, (at :> f.data) @@ f.pre>>
              /\ f.op = "get" =>
                   out = <<IF at \in DOMAIN f.pre
                           THEN [status |-> "ok", value |-> f.pre[at]]
                           ELSE Missing,
                           f.pre>>
              /\ f.op = "wait" =>
                   /\ Stored = f.pre
                   /\ Ok(t) <=> Range(ats) \subseteq DOMAIN f.pre
                   /\ ret[t].status \in {"ok", "timeout"}
              /\ f.op = "multi_get" => out = GenericMultiGet(f.pre, ats)
              /\ f.op = "multi_set" =>
                   out = <<OkRet, WrittenInOrder(f.pre, ats, f.values)>>
              /\ f.op = "append" => out = GenericAppend(f.pre, at, f.data)
              /\ f.op = "add" => out = GenericAdd(f.pre, at, f.delta)

C38_Witness ==
  \E t \in Threads :
    /\ Ended(t, "multi_set") /\ frame[t].via = <<"p", "pa">>
    /\ frame[t].keys = <<"ab", "b">>
    /\ frame[t].pre = ("ppab" :> <<1>>)
    /\ Stored = ("papab" :> Encoding(5)) @@ ("papb" :> <<2, 3>>) @@ ("ppab" :> <<1>>)

\* ---------------------------------------------------------------- V2Spec
\* one client uses decorators, one and two deep, over a HashStore and over
\* a store that overrides has_v2_support() and the four batch operations
V2Vias == {<<"p">>, <<"pa", "p">>}
V2ValueVectors == {<<<<1>>>>, <<Encoding(5), <<2, 3>>>>}
V2Deltas == {3, 0 - 1}
V2Totals == {0, 7}
NativeError == [status |-> "error", value |-> <<>>]

\* what the native operation of the call c may return or throw: the store
\* is free in its answer
NativeResults(c) ==
  IF c.op = "multi_get"
  THEN {[status |-> "ok", value |-> vs] : vs \in V2ValueVectors} \cup {NativeError}
  ELSE IF c.op = "add"
  THEN {[status |-> "ok", value |-> n] : n \in V2Totals} \cup {NativeError}
  ELSE {OkRet, NativeError}

\* the decorators of via hand the call c down to the backend, each with its
\* own prefix on the keys; the frame f counts the native calls in i
NativeCall(t, f, c) ==
  /\ pc[t] = "idle"
  /\ f.via # <<>>
  /\ has_v2_support(store_(f.via))
  /\ frame' = [frame EXCEPT ![t] = [f EXCEPT !.i = 1, !.pre = Stored, !.among = Inside]]
  /\ call' = [call EXCEPT ![t] = c]
  /\ pc' = [pc EXCEPT ![t] = "native"]
  /\ UNCHANGED <<backend, storeVars, local, elapsed, sleep, ret, globalHist,
                 hist, writes>>

\* PrefixStore::multi_get where store_.has_v2_support() is true
PrefixStore_multi_get(t, via, ks) ==
  NativeCall(t, [NoFrame EXCEPT !.op = "multi_get", !.via = via, !.keys = ks],
             [NoCall EXCEPT !.op = "multi_get",
                            !.keys = [i \in 1 .. Len(ks) |-> prefixed(via, ks[i])]])

\* PrefixStore::multi_set where store_.has_v2_support() is true
PrefixStore_multi_set(t, via, ks, vs) ==
  NativeCall(t, [NoFrame EXCEPT !.op = "multi_set", !.via = via, !.keys = ks,
                                !.values = vs],
             [NoCall EXCEPT !.op = "multi_set", !.values = vs,
                            !.keys = [i \in 1 .. Len(ks) |-> prefixed(via, ks[i])]])

\* PrefixStore::append where store_.has_v2_support() is true
PrefixStore_append(t, via, k, v) ==
  NativeCall(t, [NoFrame EXCEPT !.op = "append", !.via = via, !.key = k, !.data = v],
             [NoCall EXCEPT !.op = "append", !.key = prefixed(via, k), !.data = v])

\* PrefixStore::add where store_.has_v2_support() is true
PrefixStore_add(t, via, k, d) ==
  NativeCall(t, [NoFrame EXCEPT !.op = "add", !.via = via, !.key = k, !.delta = d],
             [NoCall EXCEPT !.op = "add", !.key = prefixed(via, k), !.delta = d])

\* the native operation of the backend returns or throws
NativeStore_return(t) ==
  /\ pc[t] = "native"
  /\ \E r \in NativeResults(call[t]) : Finish(t, r)
  /\ UNCHANGED <<backend, storeVars, call, local, elapsed, sleep, globalHist,
                 hist, frame, writes>>

\* return store_.multi_get(...) and the like: the decorators hand the
\* outcome up
PrefixStore_return(t) ==
  /\ pc[t] = "done"
  /\ frame[t].op \in {"multi_get", "multi_set", "append", "add"}
  /\ has_v2_support(frame[t].via)
  /\ pc' = [pc EXCEPT ![t] = "end"]
  /\ UNCHANGED <<backend, storeVars, call, local, elapsed, sleep, ret,
                 globalHist, hist, frame, writes>>

\* the store under the decorators is a HashStore or a store with v2 support
V2Backends == {"hash", "v2"}

V2Init ==
  /\ backend \in V2Backends
  /\ map_ = <<>>
  /\ mutex_ = NoThread
  /\ cvWaiters = {}
  /\ files = <<>>
  /\ pc = [t \in Threads |-> "idle"]
  /\ call = [t \in Threads |-> NoCall]
  /\ local = [t \in Threads |-> 0]
  /\ elapsed = [t \in Threads |-> 0]
  /\ sleep = [t \in Threads |-> 0]
  /\ ret = [t \in Threads |-> NoRet]
  /\ published = {}
  /\ lastRet = [k \in PhysKeys |-> {}]
  /\ observed = {}
  /\ hist = [t \in Threads |-> NoHist]
  /\ frame = [t \in Threads |-> NoFrame]
  /\ writes = {}

V2Next ==
  \/ \E t \in Clients, via \in V2Vias, ks \in PrefixKeyVectors :
       PrefixStore_multi_get(t, via, ks)
  \/ \E t \in Clients, via \in V2Vias, ks \in PrefixKeyVectors, vs \in V2ValueVectors :
       PrefixStore_multi_set(t, via, ks, vs)
  \/ \E t \in Clients, via \in V2Vias, k \in PrefixKeys, v \in Values :
       PrefixStore_append(t, via, k, v)
  \/ \E t \in Clients, via \in V2Vias, k \in PrefixKeys, d \in V2Deltas :
       PrefixStore_add(t, via, k, d)
  \/ \E t \in Clients : NativeStore_return(t)
  \/ \E t \in Clients : PrefixStore_return(t)
  \/ \E t \in Clients, via \in V2Vias :
       backend = "hash" /\ Store_set(t, via, NestedKey, Encoding(5))
  \/ \E t \in Clients : Store_forwarded(t)
  \/ \E t \in Clients, via \in V2Vias, ks \in PrefixKeyVectors :
       Store_multi_get(t, via, ks)
  \/ \E t \in Clients, via \in V2Vias, d \in V2Deltas :
       Store_add(t, via, NestedKey, d)
  \/ \E t \in Clients : Store_multi_get_next(t)
  \/ \E t \in Clients : Store_add_set(t)
  \/ \E t \in Clients : Store_add_return(t)
  \/ \E t \in Clients : Store_return(t)
  \/ \E t \in Clients : HashStore_lock(t)
  \/ \E t \in Clients : HashStore_set(t)
  \/ \E t \in Clients : HashStore_get(t)

V2Spec == V2Init /\ [][V2Next]_vars

\* the key the backend is given for key k through the decorators of via,
\* one or two deep
Forwarded(via, k) ==
  IF Len(via) = 1 THEN via[1] \o k ELSE via[2] \o via[1] \o k

BatchOps == {"multi_get", "multi_set", "append", "add"}

\* C34: when the backing store reports v2 support, a multi_get, multi_set,
\* append or add made through a PrefixStore makes one call of the backing
\* store's own operation of the same name, with every key prefixed once and
\* the values or delta as given, makes no get or set, and ends with the
\* outcome that call gave.
C34_NativeForwarding ==
  /\ [](\A t \in Threads :
          (backend = "v2" /\ frame[t].op \in BatchOps) =>
            LET f == frame[t]
                c == call[t]
            IN /\ pc[t] \in {"native", "done", "end"}
               /\ f.i = 1
               /\ c.op = f.op
               /\ Len(c.keys) = Len(f.keys)
               /\ \A i \in 1 .. Len(f.keys) : c.keys[i] = Forwarded(f.via, f.keys[i])
               /\ c.values = f.values
               /\ c.delta = f.delta
               /\ c.data = f.data
               /\ f.op \in {"append", "add"} => c.key = Forwarded(f.via, f.key)
               /\ pc[t] \in {"done", "end"} => ret[t] \in NativeResults(c))
  /\ [][\A t \in Threads :
          backend = "v2" =>
            /\ pc'[t] = "native" => pc[t] = "idle"
            /\ pc'[t] = "end" => (pc[t] = "done" /\ ret'[t] = ret[t])
            /\ (pc[t] = "native" /\ pc'[t] # "native") => pc'[t] = "done"]_vars

C34_Witness ==
  \E t \in Threads :
    /\ backend = "v2" /\ Ended(t, "multi_set")
    /\ frame[t].via = <<"pa", "p">> /\ frame[t].keys = <<"b", "ab">>
    /\ frame[t].values = <<<<1>>>>
    /\ call[t].keys = <<"ppab", "ppaab">> /\ call[t].values = <<<<1>>>>
    /\ ret[t] = NativeError

\* ------------------------------------------------------------- StatSpec
\* a FileStore where thread 1 publishes "a" and "b" while thread 2 waits
\* for keys among which "a/x", whose path runs through the file of "a"
StatKeyVectors == {<<"a/x">>, <<"b", "a/x">>, <<"a/x", "b">>}

StatInit == Init /\ backend = "file"

StatNext ==
  \/ \E k \in Keys : CallSet(1, k, <<1>>)
  \/ \E ks \in StatKeyVectors, T \in Timeouts : CallWait(2, ks, T)
  \/ \E t \in Threads : Return(t)
  \/ \E t \in Threads : FileStore_set_open(t)
  \/ \E t \in Threads : FileStore_set_write(t)
  \/ \E t \in Threads : FileStore_wait_stat(t)
  \/ \E t \in Threads : FileStore_wait_now(t)
  \/ \E t \in Threads : FileStore_wait_wake(t)
  \/ Tick

StatSpec == StatInit /\ [][StatNext]_vars

\* the path the waiter t is about to stat
Polled(t) == basePath_ \o "/" \o call[t].keys[local[t]]
\* stat of that path fails for another reason than "does not exist": the
\* path is "d/a/x" and "d/a" is a file
StatFails(t) ==
  /\ Polled(t) \notin DOMAIN files
  /\ Polled(t) = "d/a/x" /\ "d/a" \in DOMAIN files

\* C31: when stat of a polled key fails for another reason than "does not
\* exist", FileStore::wait ends in that step with a system error, without
\* reading the clock or sleeping; only a key that does not exist sends the
\* waiter to the clock and another round, and only the clock check ends the
\* wait with a timeout.
C31_StatFailureAborts ==
  [][\A t \in Threads :
       /\ (pc[t] = "fwait_stat" /\ <<pc[t], local[t]>>' # <<pc[t], local[t]>>) =>
            /\ StatFails(t) =>
                 /\ pc'[t] = "done" /\ ret'[t].status = "system"
                 /\ sleep'[t] = sleep[t] /\ elapsed'[t] = elapsed[t]
            /\ pc'[t] = "fwait_now" =>
                 (Polled(t) \notin DOMAIN files /\ ~StatFails(t))
            /\ pc'[t] = "done" =>
                 (ret'[t].status = "system" <=> StatFails(t))
       /\ (pc[t] \in FileWaitPcs /\ pc'[t] = "done" /\ ret'[t].status = "timeout") =>
            pc[t] = "fwait_now"
       /\ (pc[t] \in FileWaitPcs /\ pc'[t] = "done" /\ ret'[t].status = "system") =>
            pc[t] = "fwait_stat"]_vars

C31_Witness ==
  /\ Done(2, "wait") /\ ret[2].status = "system"
  /\ call[2].keys = <<"b", "a/x">> /\ call[2].timeout = kNoTimeout
  /\ local[2] = 2 /\ elapsed[2] >= 1
  /\ DOMAIN files = {"d/a", "d/b"}

\* -------------------------------------------------------------- CtorSpec
\* three processes construct a FileStore, in any order, on the base
\* directory or on a path whose parent does not exist; the directory is
\* absent at first, or holds the file of key "a" left by an earlier process
CtorPaths == {basePath_, "nodir/d"}
CtorTimeouts == {0, kNoTimeout}

\* thread t has a FileStore: its constructor has returned
Constructed(t) ==
  pc[t] # "new" /\ ~(call[t].op = "ctor" /\ ret[t].status # "ok")

\* the base directory exists: it holds a file, or some constructor made it
DirExists == files # <<>> \/ \E t \in Threads : Constructed(t)

\* mkdir(path, 0777): the errno it fails with, "ok" when it returns 0
Mkdir(path, exists) ==
  IF path # basePath_ THEN "ENOENT" ELSE IF exists THEN "EEXIST" ELSE "ok"

\* variant: no failure of mkdir is tolerated
ToleratedNone(e) == FALSE

\* errno != EEXIST is what makes the constructor throw
Tolerated(e) == e = "EEXIST"

\* FileStore::FileStore(path)
FileStore_ctor(t, path) ==
  /\ pc[t] = "new"
  /\ call' = [call EXCEPT ![t] = [NoCall EXCEPT !.op = "ctor", !.key = path]]
  /\ LET e == Mkdir(path, DirExists)
     IN IF e = "ok" \/ Tolerated(e)
        THEN Finish(t, OkRet)
        ELSE Finish(t, [status |-> "system", value |-> <<>>])
  /\ UNCHANGED <<backend, frame, writes, storeVars, local, elapsed, sleep,
                 globalHist, hist>>

CtorInit ==
  /\ backend = "file"
  /\ map_ = <<>>
  /\ mutex_ = NoThread
  /\ cvWaiters = {}
  /\ \/ files = <<>> /\ published = {} /\ lastRet = [k \in Keys |-> {}]
     \/ /\ files = (realPath("a") :> <<1>>)
        /\ published = {"a"}
        /\ lastRet = [k \in Keys |-> IF k = "a" THEN {<<<<1>>, TRUE>>} ELSE {}]
  /\ pc = [t \in Threads |-> "new"]
  /\ call = [t \in Threads |-> NoCall]
  /\ local = [t \in Threads |-> 0]
  /\ elapsed = [t \in Threads |-> 0]
  /\ sleep = [t \in Threads |-> 0]
  /\ ret = [t \in Threads |-> NoRet]
  /\ observed = {}
  /\ hist = [t \in Threads |-> NoHist]
  /\ frame = [t \in Threads |-> NoFrame]
  /\ writes = {}

CtorNext ==
  \/ \E t \in Threads, path \in CtorPaths : FileStore_ctor(t, path)
  \/ CallSet(1, "a", <<2, 3>>)
  \/ CallGet(2, "a")
  \/ \E T \in CtorTimeouts : CallWait(3, <<"a">>, T)
  \/ \E t \in Threads : Constructed(t) /\ Return(t)
  \/ \E t \in Threads : FileStore_set_open(t)
  \/ \E t \in Threads : FileStore_set_write(t)
  \/ \E t \in Threads : FileStore_get_open(t)
  \/ \E t \in Threads : FileStore_get_read(t)
  \/ \E t \in Threads : FileStore_wait_stat(t)
  \/ \E t \in Threads : FileStore_wait_now(t)
  \/ \E t \in Threads : FileStore_wait_wake(t)
  \/ Tick

CtorSpec == CtorInit /\ [][CtorNext]_vars

\* C32: a FileStore constructor given the base directory returns whether
\* or not the directory exists and leaves every file as it is; one given a
\* path that mkdir fails on for another reason than "already exists" ends
\* with a system error; and the instances built on the base directory, in
\* any order, share the keys: a get finds the value of the last returned
\* set (no set on the key having overlapped it), a wait called when the
\* keys are there succeeds, whichever instance made the set.
C32_IdempotentConstruction ==
  /\ [][\A t \in Threads :
          (pc[t] = "new" /\ pc'[t] # "new") =>
            /\ files' = files
            /\ pc'[t] = "done"
            /\ IF call'[t].key = "d"
               THEN ret'[t].status = "ok"
               ELSE ret'[t].status = "system"]_vars
  /\ [](\A t \in Threads :
          /\ Done(t, "get") =>
               \A p \in hist[t].gexp : p[2] => (Ok(t) /\ ret[t].value = p[1])
          /\ (Done(t, "wait") /\ hist[t].presAtCall) => Ok(t))

C32_Witness ==
  /\ pc[2] = "done" /\ call[2].op = "ctor" /\ call[2].key = "d" /\ Ok(2)
  /\ pc[1] = "idle" /\ files = ("d/a" :> <<2, 3>>)
  /\ pc[3] = "done" /\ call[3].op = "ctor" /\ ret[3].status = "system"

====
